---- MODULE Spec2Model ----
(***************************************************************************)
(* Jarvis: the whitelist store (whitelist_manager.py) and the action       *)
(* executor with its confirmation gate (action_executor.py), the retry     *)
(* policy and the fallback chain (error_recovery.py).                      *)
(*                                                                         *)
(* Strings that the code splits or joins on spaces or slashes are          *)
(* sequences of their tokens: a path is the sequence of its components     *)
(* ("/tmp/d/f" is <<"tmp","d","f">>), an application string the sequence   *)
(* of its space-separated words, a url <<scheme, host, path>>.  A          *)
(* whitelist key is such a sequence.  File contents and the text of        *)
(* outcome strings are abstracted: an outcome is the tag of its message.   *)
(* Delays are whole seconds.  The value that the k-th call of a retried    *)
(* operation returns is <<"value", k>>, the failure it raises              *)
(* <<"failure", k>>.                                                       *)
(***************************************************************************)
EXTENDS Integers, Sequences, FiniteSets, TLC

VARIABLES
    whitelist,              \* WhitelistManager.whitelist: category -> set of keys
    whitelist_file,         \* command_whitelist.json: [exists, data: category -> list]
    confirmation_callback,  \* ActionExecutor.confirmation_callback is set (not None)
    files,                  \* regular files of the filesystem (resolved paths)
    dirs,                   \* directories of the filesystem (resolved paths)
    last,                   \* the last call: its inputs, gate decision, outcome, effects
    tool_call,              \* the last call of execute_tool_call: the request, what it returned
    retry,                  \* the run of RetryPolicy.execute in progress or just ended
    chain,                  \* the run of FallbackChain.execute in progress or just ended
    degraded_mode,          \* the DegradedModeManager instance and the last call on it
    history,                \* the ConversationHistory: max_history, messages
    added,                  \* every message given to add_message of a history by its owner
    database,               \* conversations.db: its two tables, the last call of the backend
    offline_cache,          \* LLMModule._offline_cache: the (key, response) pairs in order
    service_call,           \* the last call of a service: its inputs and what it did
    turn,                   \* process_user_input: where it is, what it has done so far
    callers,                \* two threads that call the DegradedModeManager at once
    detector                \* the WakeWordDetector and its call of listen_for_wake_word

\* the state of the action executor, of its store and of the filesystem
executor_vars ==
    <<whitelist, whitelist_file, confirmation_callback, files, dirs, last, tool_call>>

\* the state of the assistant's services
assistant_vars ==
    <<degraded_mode, history, added, database, offline_cache, service_call, callers,
      detector>>

vars == <<executor_vars, retry, chain, assistant_vars, turn>>

\* Most keys the whitelist holds over all categories in an explored state.
MaxWhitelist == 1

\* Largest max_attempts of a retry policy.
MaxAttempts == 4

\* Most candidates of a fallback chain, the primary included.
MaxCandidates == 3

\* Largest max_history of a conversation history.
MaxHistory == 2

\* settings.offline_response_cache_size: most responses the offline cache holds.
CacheSize == 2

\* Most messages of a history in an explored state.
MaxMessages == 4

\* Most messages of a session given to save_session.
MaxSaved == 2

\* Most tool calls that a response of the LLM carries.
MaxTools == 2

\* Most frames that a call of listen_for_wake_word reads in an explored state.
MaxFrames == 4

Range(s) == {s[i] : i \in DOMAIN s}

(***************************************************************************)
(* Configuration (config.py) and constants of action_executor.py           *)
(***************************************************************************)
\* settings.allowed_directories = "/home,/tmp", split on ','
allowed_dirs == << <<"home">>, <<"tmp">> >>

\* settings.command_whitelist, split on ','
command_whitelist ==
    {"ls", "cat", "mkdir", "touch", "rm", "echo", "code", "firefox", "nautilus"}

DANGEROUS_COMMANDS ==
    {"rm", "rmdir", "shred", "dd", "mkfs", "fdisk", "kill", "killall", "pkill",
     "chmod", "chown"}

\* the commands launch_application starts detached
GuiCommands == {"code", "firefox", "nautilus", "gedit"}

Categories == {"file_operations", "applications", "web_urls"}

(***************************************************************************)
(* The environment the calls are made in                                   *)
(***************************************************************************)
\* symbolic links of the filesystem: /tmp/link -> /etc
Symlinks == (<<"tmp", "link">> :> <<"etc">>)

Operations ==
    {"create_file", "read_file", "delete_file", "create_directory",
     "list_directory", "delete_directory", "rename_file"}

Paths ==
    { <<"tmp", "d", "f">>,            \* below an allowed root
      <<"tmp">>,                      \* an allowed root itself
      <<"etc", "passwd">>,            \* outside
      <<"tmp", "link", "passwd">>,    \* below a root by name, outside once resolved
      <<"tmp", "..", "etc", "passwd">> }

\* (application, args) of the launch requests
Launches ==
    { [application |-> <<"ls">>,       args |-> <<>>],
      [application |-> <<"ls">>,       args |-> <<"-l">>],
      [application |-> <<"ls", "-l">>, args |-> <<>>],
      [application |-> <<"rm">>,       args |-> <<"x">>],
      [application |-> <<"firefox">>,  args |-> <<>>],
      [application |-> <<"vim">>,      args |-> <<>>],
      [application |-> <<"kill">>,     args |-> <<"1">>] }

\* <<scheme, host, path>>; the last has no scheme ("example.com/a")
Urls ==
    { <<"https", "example.com", "a">>,
      <<"https", "example.com", "b">>,
      <<"", "example.com", "a">> }

\* what the handler answers when it is asked: (execute, remember)
Answers == [execute : BOOLEAN, remember : BOOLEAN]

\* how the started process ends
ProcOutcomes == {"ok", "timeout", "oserror"}

\* how requests.get ends
NetOutcomes == {"ok", "failed"}

\* settings.enable_retry_logic: config.py declares no such field, the tests set it
RetrySettings == {"unset", "on", "off"}

\* keys the store's own interface is called with
ApiKeys ==
    { <<"ls">>, <<"vim">>, <<"example.com">>, <<"create_file", ":", "tmp", "d">> }

\* Python's None: no failure, no value, no argument
None == <<>>

(***************************************************************************)
(* WhitelistManager                                                        *)
(***************************************************************************)
EmptyWhitelist == [c \in Categories |-> {}]

\* list(value): the keys of a set in some order
SetToList(S) ==
    CHOOSE s \in [1..Cardinality(S) -> S] : \A x \in S : \E i \in DOMAIN s : s[i] = x

\* the key that urlparse(None).netloc gives: the bytes b'', which json.dump
\* does not serialize
BytesKey == <<"b''">>

\* a file of [exists, valid, data]: valid tells that its text is JSON.  A file
\* that is absent or that json.load rejects gives the three empty categories
load_whitelist(file) ==
    IF ~file.exists \/ ~file.valid THEN EmptyWhitelist
    ELSE [c \in DOMAIN file.data |-> Range(file.data[c])]

\* open(file, 'w') empties the file and json.dump writes it piece by piece:
\* a key that is not serializable stops the writing, the failure is logged
\* and the file is left cut short
save_whitelist(wl) ==
    IF \E c \in DOMAIN wl : BytesKey \in wl[c]
    THEN [exists |-> TRUE, valid |-> FALSE, data |-> [c \in {} |-> <<>>]]
    ELSE [exists |-> TRUE, valid |-> TRUE,
          data |-> [c \in DOMAIN wl |-> SetToList(wl[c])]]

get_whitelist(wl, category) ==
    IF category \in DOMAIN wl THEN wl[category] ELSE {}

is_whitelisted_any_category(wl, category, item) ==
    \E c \in DOMAIN wl : item \in wl[c]

is_whitelisted(wl, category, item) ==
    item \in get_whitelist(wl, category)

\* a store is [whitelist, file]
add_to_whitelist(s, category, item) ==
    LET wl == [c \in DOMAIN s.whitelist \cup {category} |->
                  IF c = category
                  THEN get_whitelist(s.whitelist, c) \cup {item}
                  ELSE s.whitelist[c]]
    IN  [whitelist |-> wl, file |-> save_whitelist(wl)]

remove_from_whitelist(s, category, item) ==
    IF category \in DOMAIN s.whitelist
    THEN LET wl == [c \in DOMAIN s.whitelist |->
                       IF c = category THEN s.whitelist[c] \ {item}
                       ELSE s.whitelist[c]]
         IN  [whitelist |-> wl, file |-> save_whitelist(wl)]
    ELSE s

WhitelistSize(wl) == Cardinality({<<c, k>> \in UNION {{c} \X wl[c] : c \in DOMAIN wl} : TRUE})

(***************************************************************************)
(* Paths: Path.parent, Path.resolve, Path.relative_to                      *)
(***************************************************************************)
Parent(p) == IF p = <<>> THEN <<>> ELSE SubSeq(p, 1, Len(p) - 1)

Prefixes(p) == {SubSeq(p, 1, n) : n \in 0..Len(p)}

FollowLink(p) == IF p \in DOMAIN Symlinks THEN Symlinks[p] ELSE p

RECURSIVE ResolveFrom(_, _)
ResolveFrom(done, rest) ==
    IF rest = <<>> THEN done
    ELSE ResolveFrom(IF Head(rest) = ".." THEN Parent(done)
                     ELSE FollowLink(Append(done, Head(rest))),
                     Tail(rest))

\* Path.resolve(): the absolute path with ".." and symbolic links followed
Resolve(p) == ResolveFrom(<<>>, p)

\* p.relative_to(root) does not raise ValueError
IsRelativeTo(p, root) == Len(root) <= Len(p) /\ SubSeq(p, 1, Len(root)) = root

is_path_allowed_unresolved(path) ==
    \E i \in DOMAIN allowed_dirs : IsRelativeTo(path, allowed_dirs[i])

is_path_allowed(path) ==
    \E i \in DOMAIN allowed_dirs :
        IsRelativeTo(Resolve(path), Resolve(allowed_dirs[i]))

(***************************************************************************)
(* ActionExecutor._request_confirmation                                    *)
(***************************************************************************)
\* the handler was not invoked
NoAnswer == [execute |-> FALSE, remember |-> FALSE]

\* the handler raises instead of answering
HandlerRaises == [execute |-> FALSE, remember |-> FALSE, raises |-> TRUE]

\* the gate invoked the handler, which raised: "return
\* self.confirmation_callback(...)" lets the failure through
GateRaised(gate) == gate.calls = 1 /\ gate.answer = HandlerRaises

\* the gate was not consulted
NoGate ==
    [consulted |-> FALSE, category |-> "", item |-> <<>>, force |-> FALSE,
     listed |-> FALSE, calls |-> 0, answer |-> NoAnswer,
     execute |-> FALSE, remember |-> FALSE]

Asked_always_executes(category, item, force, listed, answer) ==
    [consulted |-> TRUE, category |-> category, item |-> item, force |-> force,
     listed |-> listed, calls |-> 1, answer |-> answer,
     execute |-> TRUE, remember |-> answer.remember]

\* the handler's answer, returned as the decision
Asked(category, item, force, listed, answer) ==
    [consulted |-> TRUE, category |-> category, item |-> item, force |-> force,
     listed |-> listed, calls |-> 1, answer |-> answer,
     execute |-> answer.execute, remember |-> answer.remember]

\* a decision taken without the handler
Unasked(category, item, force, listed, execute) ==
    [consulted |-> TRUE, category |-> category, item |-> item, force |-> force,
     listed |-> listed, calls |-> 0, answer |-> NoAnswer,
     execute |-> execute, remember |-> FALSE]

request_confirmation_force_ignored(wl, callback, category, item, force, answer) ==
    LET listed == is_whitelisted(wl, category, item)
    IN  IF listed
        THEN Unasked(category, item, force, listed, TRUE)
        ELSE IF callback
        THEN Asked(category, item, force, listed, answer)
        ELSE Unasked(category, item, force, listed, FALSE)

request_confirmation_default_allow(wl, callback, category, item, force, answer) ==
    LET listed == is_whitelisted(wl, category, item)
    IN  IF ~force /\ listed
        THEN Unasked(category, item, force, listed, TRUE)
        ELSE IF callback
        THEN Asked(category, item, force, listed, answer)
        ELSE Unasked(category, item, force, listed, TRUE)

\* calls counts the invocations of the handler; answer is what it returns if invoked
request_confirmation(wl, callback, category, item, force, answer) ==
    LET listed == is_whitelisted(wl, category, item)
    IN  IF ~force /\ listed
        THEN Unasked(category, item, force, listed, TRUE)
        ELSE IF callback
        THEN Asked(category, item, force, listed, answer)
        ELSE Unasked(category, item, force, listed, FALSE)

RememberDecision_wrong_category(s, g) ==
    IF g.execute /\ g.remember THEN add_to_whitelist(s, "file_operations", g.item) ELSE s

RememberDecision_whenever_executed(s, g) ==
    IF g.execute THEN add_to_whitelist(s, g.category, g.item) ELSE s

\* "if not execute: return ...", then "if add_to_whitelist: add_to_whitelist(...)"
RememberDecision(s, g) ==
    IF g.execute /\ g.remember THEN add_to_whitelist(s, g.category, g.item) ELSE s

(***************************************************************************)
(* ActionExecutor.execute_file_operation                                   *)
(***************************************************************************)
Effect(kind, target) == [kind |-> kind, target |-> target]

\* the calls that change the filesystem
FileMutations == {"mkdir", "write_text", "unlink"}

\* Path.mkdir(parents=True, exist_ok=True) fails when a component is a regular file
MkdirFails(fs, p) == \E q \in Prefixes(p) : q \in fs.files

Outcome(fs, result, effects) ==
    [files |-> fs.files, dirs |-> fs.dirs, result |-> result, effects |-> effects]

\* the try block of execute_file_operation on the path p; fs is [files, dirs]
PerformFileOperation(operation, p, fs) ==
    LET rp == Resolve(p)
        exists == rp \in fs.files \cup fs.dirs
    IN  CASE operation = "create_file" ->
               IF MkdirFails(fs, Parent(rp))
               THEN Outcome(fs, "Error", <<Effect("mkdir", <<Parent(p)>>)>>)
               ELSE LET made == [files |-> fs.files,
                                 dirs |-> fs.dirs \cup Prefixes(Parent(rp))]
                    IN  IF rp \in made.dirs
                        THEN Outcome(made, "Error",
                                     <<Effect("mkdir", <<Parent(p)>>),
                                       Effect("write_text", <<p>>)>>)
                        ELSE Outcome([made EXCEPT !.files = @ \cup {rp}], "FileCreated",
                                     <<Effect("mkdir", <<Parent(p)>>),
                                       Effect("write_text", <<p>>)>>)
          [] operation = "read_file" ->
               IF ~exists THEN Outcome(fs, "FileNotFound", <<>>)
               ELSE IF rp \notin fs.files THEN Outcome(fs, "NotAFile", <<>>)
               ELSE Outcome(fs, "FileContent", <<>>)
          [] operation = "delete_file" ->
               IF ~exists THEN Outcome(fs, "PathNotFound", <<>>)
               ELSE IF rp \in fs.files
               THEN Outcome([fs EXCEPT !.files = @ \ {rp}], "FileDeleted",
                            <<Effect("unlink", <<p>>)>>)
               ELSE Outcome(fs, "NotAFileUseDeleteDirectory", <<>>)
          [] operation = "create_directory" ->
               IF MkdirFails(fs, rp)
               THEN Outcome(fs, "Error", <<Effect("mkdir", <<p>>)>>)
               ELSE Outcome([fs EXCEPT !.dirs = @ \cup Prefixes(rp)], "DirectoryCreated",
                            <<Effect("mkdir", <<p>>)>>)
          [] operation = "list_directory" ->
               IF ~exists THEN Outcome(fs, "DirectoryNotFound", <<>>)
               ELSE IF rp \notin fs.dirs THEN Outcome(fs, "NotADirectory", <<>>)
               ELSE Outcome(fs, "Contents", <<>>)
          [] OTHER -> Outcome(fs, "UnknownOperation", <<>>)

NeedsConfirmation_deletes_only(operation) ==
    operation \in {"delete_file", "delete_directory"}

\* operation in ["delete_file", "delete_directory", "create_file"]
NeedsConfirmation(operation) ==
    operation \in {"delete_file", "delete_directory", "create_file"}

IsDestructive_directories_only(operation) == operation = "delete_directory"

\* operation.startswith("delete")
IsDestructive(operation) == operation \in {"delete_file", "delete_directory"}

FileWhitelistItem_full_path(operation, path) == <<operation, ":">> \o path

\* f"{operation}:{file_path.parent}"
FileWhitelistItem(operation, path) == <<operation, ":">> \o Parent(path)

NoRequest ==
    [operation |-> "", path |-> <<>>, application |-> <<>>, args |-> <<>>,
     url |-> <<>>, category |-> "", item |-> <<>>, retry_logic |-> "",
     nets |-> <<>>]

Call(op, request, allowed, gate, result, raised, effects) ==
    [op |-> op, request |-> request, allowed |-> allowed, gate |-> gate,
     result |-> result, raised |-> raised, effects |-> effects]

\* the state a call leaves: the store s, the filesystem fs and the call's record
Finish(s, fs, call) ==
    /\ WhitelistSize(s.whitelist) <= MaxWhitelist
    /\ whitelist' = s.whitelist
    /\ whitelist_file' = s.file
    /\ files' = fs.files
    /\ dirs' = fs.dirs
    /\ last' = call
    /\ UNCHANGED <<confirmation_callback, retry, chain, assistant_vars>>

Store == [whitelist |-> whitelist, file |-> whitelist_file]

Filesystem == [files |-> files, dirs |-> dirs]

execute_file_operation(operation, path, answer) ==
    LET request == [NoRequest EXCEPT !.operation = operation, !.path = path]
        op == "execute_file_operation"
    IN  IF path = None
        \* Path(None) raises TypeError
        THEN Finish(Store, Filesystem,
                    Call(op, request, FALSE, NoGate, "TypeError", TRUE, <<>>))
        ELSE IF ~is_path_allowed(path)
        THEN Finish(Store, Filesystem,
                    Call(op, request, FALSE, NoGate, "PathDenied", FALSE, <<>>))
        ELSE LET gate == IF NeedsConfirmation(operation)
                         THEN request_confirmation(
                                  whitelist, confirmation_callback, "file_operations",
                                  FileWhitelistItem(operation, path),
                                  IsDestructive(operation), answer)
                         ELSE NoGate
             IN  IF GateRaised(gate)
                 THEN Finish(Store, Filesystem,
                             Call(op, request, TRUE, gate, "HandlerError", TRUE, <<>>))
                 ELSE IF gate.consulted /\ ~gate.execute
                 THEN Finish(Store, Filesystem,
                             Call(op, request, TRUE, gate, "Cancelled", FALSE, <<>>))
                 ELSE LET done == PerformFileOperation(operation, path, Filesystem)
                      IN  Finish(IF gate.consulted THEN RememberDecision(Store, gate)
                                 ELSE Store,
                                 done,
                                 Call(op, request, TRUE, gate, done.result, FALSE,
                                      done.effects))

(***************************************************************************)
(* ActionExecutor.launch_application                                       *)
(***************************************************************************)
\* application.split()[0] if ' ' in application else application
\* (a string without a space is its own first word)
BaseCommand(application) == application[1]

CommandAllowed_or_whitelisted(base_command) ==
    \/ base_command \in command_whitelist
    \/ <<base_command>> \in get_whitelist(whitelist, "applications")

\* base_command in self.command_whitelist
CommandAllowed(base_command) == base_command \in command_whitelist

IsDangerous_rm_forgotten(base_command) == base_command \in DANGEROUS_COMMANDS \ {"rm"}

\* base_command in DANGEROUS_COMMANDS
IsDangerous(base_command) == base_command \in DANGEROUS_COMMANDS

\* f"{application} {' '.join(args)}" if args else application
CmdWithArgs(application, args) ==
    IF args # <<>> THEN application \o args ELSE application

\* cmd = [application] + args: one element for the whole application string
CommandVector(application, args) ==
    <<application>> \o [i \in DOMAIN args |-> <<args[i]>>]

\* the try block of launch_application
PerformLaunch(application, args, proc) ==
    LET cmd == CommandVector(application, args)
    IN  IF BaseCommand(application) \in GuiCommands
        THEN [result |-> IF proc = "oserror" THEN "ErrorLaunching" ELSE "Launched",
              effects |-> <<Effect("Popen", cmd)>>]
        ELSE [result |-> CASE proc = "ok" -> "CommandOutput"
                           [] proc = "timeout" -> "CommandTimedOut"
                           [] OTHER -> "ErrorLaunching",
              effects |-> <<Effect("run", cmd)>>]

launch_application(application, args, answer, proc) ==
    LET request == [NoRequest EXCEPT !.application = application, !.args = args]
        op == "launch_application"
        base_command == BaseCommand(application)
    IN  IF application = None
        \* ' ' in None raises TypeError
        THEN Finish(Store, Filesystem,
                    Call(op, request, FALSE, NoGate, "TypeError", TRUE, <<>>))
        ELSE IF ~CommandAllowed(base_command)
        THEN Finish(Store, Filesystem,
                    Call(op, request, FALSE, NoGate, "CommandNotAllowed", FALSE, <<>>))
        ELSE LET gate == request_confirmation(
                             whitelist, confirmation_callback, "applications",
                             CmdWithArgs(application, args),
                             IsDangerous(base_command), answer)
             IN  IF GateRaised(gate)
                 THEN Finish(Store, Filesystem,
                             Call(op, request, TRUE, gate, "HandlerError", TRUE, <<>>))
                 ELSE IF ~gate.execute
                 THEN Finish(Store, Filesystem,
                             Call(op, request, TRUE, gate, "Cancelled", FALSE, <<>>))
                 ELSE LET done == PerformLaunch(application, args, proc)
                      IN  Finish(RememberDecision(Store, gate), Filesystem,
                                 Call(op, request, TRUE, gate, done.result, FALSE,
                                      done.effects))

(***************************************************************************)
(* RetryPolicy and retry_with_backoff                                      *)
(***************************************************************************)
Min(a, b) == IF a <= b THEN a ELSE b

\* RetryPolicy.__init__
RetryPolicy(max_attempts, initial_delay, backoff_factor, max_delay) ==
    [max_attempts |-> max_attempts, initial_delay |-> initial_delay,
     backoff_factor |-> backoff_factor, max_delay |-> max_delay]

\* what one call of the operation does: it returns, raises a failure of
\* self.exceptions, or raises another failure
CallOutcomes == {"returns", "retryable", "other"}


\* no execution yet
RetryIdle ==
    [status |-> "idle", policy |-> RetryPolicy(0, 0, 0, 0), args |-> <<>>,
     wrapped |-> FALSE, attempt |-> 0, delay |-> 0, calls |-> <<>>,
     sleeps |-> <<>>, result |-> None, raised |-> None, cause |-> None]

\* the entry of execute: delay = self.initial_delay, the loop at attempt 1;
\* an empty range(1, max_attempts + 1) falls through to the final raise.
\* wrapped: entered through the wrapper of retry_with_backoff
RetryStart(policy, args, wrapped) ==
    [RetryIdle EXCEPT
        !.status = IF policy.max_attempts >= 1 THEN "running" ELSE "exhausted",
        !.policy = policy, !.args = args, !.wrapped = wrapped,
        !.attempt = 1, !.delay = policy.initial_delay,
        !.raised = IF policy.max_attempts >= 1 THEN None
                   ELSE <<"RetryExhaustedError">>]

\* except self.exceptions as e
Retryable_any_failure(outcome) == outcome # "returns"

Retryable(outcome) == outcome = "retryable"

\* return result
Returned_first_value(r, k) ==
    [r EXCEPT !.status = "returned", !.result = <<"value", 1>>]

Returned(r, k) == [r EXCEPT !.status = "returned", !.result = <<"value", k>>]

\* a failure outside self.exceptions leaves execute as it is
Propagated(r, k) == [r EXCEPT !.status = "raised", !.raised = <<"failure", k>>]

\* time.sleep(delay); delay = min(delay * self.backoff_factor, self.max_delay)
Slept(r, k) ==
    [r EXCEPT !.sleeps = Append(@, r.delay),
              !.delay = Min(r.delay * r.policy.backoff_factor, r.policy.max_delay),
              !.attempt = k + 1]

\* raise RetryExhaustedError(...) from last_exception
Exhausted_unwrapped(r, k) ==
    [r EXCEPT !.status = "raised", !.raised = <<"failure", k>>]

Exhausted(r, k) ==
    [r EXCEPT !.status = "exhausted", !.raised = <<"RetryExhaustedError">>,
              !.cause = <<"failure", k>>]

\* one iteration of the loop of execute: the call of func(*args, **kwargs)
\* and what follows it
RetryAttempt(r, outcome) ==
    LET k == r.attempt
        called == [r EXCEPT !.calls = Append(@, [attempt |-> k, args |-> r.args,
                                                  outcome |-> outcome])]
    IN  IF outcome = "returns" THEN Returned(called, k)
        ELSE IF ~Retryable(outcome) THEN Propagated(called, k)
        ELSE IF k < r.policy.max_attempts THEN Slept(called, k)
        ELSE Exhausted(called, k)

\* execute from its entry to its end, the k-th call behaving as outcomes[k]
RECURSIVE RetryLoop(_, _)
RetryLoop(r, outcomes) ==
    IF r.status # "running" THEN r
    ELSE RetryLoop(RetryAttempt(r, outcomes[r.attempt]), outcomes)

(***************************************************************************)
(* FallbackChain                                                           *)
(***************************************************************************)
\* a candidate: whether the callable has a __name__ (a function has one, a
\* MagicMock, a functools.partial or a callable object has none) and what
\* its call does
Candidate(named, outcome) == [named |-> named, outcome |-> outcome]

\* no execution yet
ChainIdle ==
    [status |-> "idle", functions |-> <<>>, idx |-> 0, calls |-> <<>>,
     result |-> None, index |-> -1, raised |-> None, last_exception |-> None]

\* FallbackChain(primary, *fallbacks).execute(): the loop at index 0
ChainStart(functions) ==
    [ChainIdle EXCEPT !.status = "running", !.functions = functions]

\* the loop is over: raise last_exception
ChainNext(c) ==
    IF c.idx + 1 < Len(c.functions)
    THEN [c EXCEPT !.idx = c.idx + 1]
    ELSE [c EXCEPT !.idx = c.idx + 1, !.status = "raised",
                   !.raised = c.last_exception]

\* one iteration of the loop.  The messages logged before the call and in
\* the except clause read func.__name__: without that attribute the first
\* raises AttributeError inside the try, before func is called, and the
\* second raises it again inside the except clause, which ends execute.
ChainTry(c) ==
    LET func == c.functions[c.idx + 1]
        called == [c EXCEPT !.calls = Append(@, c.idx)]
    IN  IF ~func.named
        THEN [c EXCEPT !.status = "raised", !.raised = <<"AttributeError">>,
                       !.last_exception = <<"AttributeError">>]
        ELSE IF func.outcome = "returns"
        THEN [called EXCEPT !.status = "returned",
                            !.result = <<"value", c.idx>>, !.index = c.idx]
        ELSE ChainNext([called EXCEPT !.last_exception = <<"failure", c.idx>>])

(***************************************************************************)
(* DegradedModeManager                                                     *)
(***************************************************************************)
\* a call on the manager: raised tells that it ended in an exception
ManagerCall(op, service, raised) == [op |-> op, service |-> service, raised |-> raised]

\* DegradedModeManager.__init__
DegradedModeManager ==
    [degraded_services |-> {}, offline_mode |-> FALSE,
     call |-> ManagerCall("__init__", "", FALSE)]

mark_degraded(dm, service) ==
    [dm EXCEPT !.degraded_services = @ \cup {service},
               !.call = ManagerCall("mark_degraded", service, FALSE)]

\* set.remove without the membership test: KeyError for an absent service
mark_recovered_unguarded(dm, service) ==
    [dm EXCEPT !.degraded_services = @ \ {service},
               !.call = ManagerCall("mark_recovered", service,
                                    service \notin dm.degraded_services)]

mark_recovered(dm, service) ==
    [dm EXCEPT !.degraded_services = IF service \in @ THEN @ \ {service} ELSE @,
               !.call = ManagerCall("mark_recovered", service, FALSE)]

is_degraded(dm, service) == service \in dm.degraded_services

\* list(self.degraded_services)
get_degraded_services(dm) == SetToList(dm.degraded_services)

enable_offline_mode(dm) ==
    [dm EXCEPT !.offline_mode = TRUE,
               !.call = ManagerCall("enable_offline_mode", "", FALSE)]

disable_offline_mode(dm) ==
    [dm EXCEPT !.offline_mode = FALSE,
               !.call = ManagerCall("disable_offline_mode", "", FALSE)]

is_offline(dm) == dm.offline_mode

(***************************************************************************)
(* DegradedModeManager called by two threads                               *)
(***************************************************************************)
Threads == {"t1", "t2"}

\* a call of a thread: pc is "idle", "called" (the method is entered),
\* "remove" (mark_recovered has found the service in the set and has not
\* removed it yet) or "done"
Caller(op, pc, raised) == [op |-> op, pc |-> pc, raised |-> raised]

\* no thread is calling; start is the degraded set when the calls began
NoCallers ==
    [service |-> "", start |-> {}, threads |-> [t \in Threads |-> Caller("", "idle", FALSE)]]

\* set.remove: KeyError for an absent element
remove(dm, service) ==
    [dm EXCEPT !.degraded_services = @ \ {service},
               !.call = ManagerCall("mark_recovered", service,
                                    service \notin dm.degraded_services)]

\* each thread enters the method ops[t] for the same service
callers_start(service, ops) ==
    /\ \A t \in Threads : callers.threads[t].pc \in {"idle", "done"}
    /\ callers' = [service |-> service, start |-> degraded_mode.degraded_services,
                   threads |-> [t \in Threads |-> Caller(ops[t], "called", FALSE)]]
    /\ UNCHANGED degraded_mode

\* the next step of thread t: the set.add of mark_degraded, the membership
\* test of mark_recovered, or its set.remove; the interpreter may switch
\* threads between the test and the remove
caller_step(t) ==
    LET c == callers.threads[t]
        service == callers.service
        \* the thread at pc, and the manager as dm
        to(pc, raised, dm) ==
            /\ callers' = [callers EXCEPT !.threads[t] = Caller(c.op, pc, raised)]
            /\ degraded_mode' = dm
    IN  CASE c.pc = "called" /\ c.op = "mark_degraded" ->
                to("done", FALSE, mark_degraded(degraded_mode, service))
          [] c.pc = "called" /\ c.op = "mark_recovered" ->
                IF is_degraded(degraded_mode, service)
                THEN to("remove", FALSE, degraded_mode)
                ELSE to("done", FALSE, mark_recovered(degraded_mode, service))
          [] c.pc = "remove" ->
                LET removed == remove(degraded_mode, service)
                IN  to("done", removed.call.raised, removed)
          [] OTHER -> FALSE

(***************************************************************************)
(* WakeWordDetector                                                        *)
(***************************************************************************)
\* porcupine.frame_length, in samples
frame_length == 512

\* porcupine.sample_rate, in samples per millisecond
porcupine_sample_rate == 16

\* a call of listen_for_wake_word: pc is "idle", "listening", "returned" or
\* "raised"; timeout is in milliseconds, 0 for None; frames_read counts the
\* calls of stream.read
Listen(pc, timeout, max_frames) ==
    [pc |-> pc, timeout |-> timeout, max_frames |-> max_frames,
     frames_processed |-> 0, frames_read |-> 0, detected |-> FALSE, raised |-> None]

NoListen == Listen("idle", 0, 0)

\* no detector constructed yet
NoDetector ==
    [built |-> FALSE, sample_rate |-> 0, porcupine |-> FALSE, initialized |-> FALSE,
     raised |-> None, call |-> NoListen]

\* WakeWordDetector.__init__
WakeWordDetector(sample_rate) ==
    [NoDetector EXCEPT !.built = TRUE, !.sample_rate = sample_rate]

\* initialize: created tells whether pvporcupine.create returns
initialize(d, created) ==
    IF d.initialized THEN [d EXCEPT !.raised = None]
    ELSE IF created
    THEN [d EXCEPT !.porcupine = TRUE, !.sample_rate = porcupine_sample_rate,
                   !.initialized = TRUE, !.raised = None]
    ELSE [d EXCEPT !.raised = <<"PorcupineError">>]

cleanup(d) ==
    IF d.porcupine THEN [d EXCEPT !.porcupine = FALSE, !.initialized = FALSE]
    ELSE d

\* int(timeout * self.sample_rate / self.porcupine.frame_length), None (0)
\* when timeout is None or 0
MaxFramesOf(d, timeout) == (timeout * d.sample_rate) \div frame_length

\* listen_for_wake_word, up to the loop
listen_for_wake_word(d, timeout) ==
    IF ~d.initialized
    THEN [d EXCEPT !.call = [Listen("raised", timeout, 0) EXCEPT
                                !.raised = <<"RuntimeError">>]]
    ELSE [d EXCEPT !.call = Listen("listening", timeout, MaxFramesOf(d, timeout))]

\* one pass of the loop: frame is what stream.read and porcupine.process
\* give, "keyword", "silence" or "error"
listen_frame(d, frame) ==
    LET call == [d.call EXCEPT !.frames_read = @ + 1]
        processed == call.frames_processed + 1
    IN  CASE frame = "error" ->
                [d EXCEPT !.call = [call EXCEPT !.pc = "raised",
                                                !.raised = <<"StreamError">>]]
          [] frame = "keyword" ->
                [d EXCEPT !.call = [call EXCEPT !.pc = "returned", !.detected = TRUE]]
          [] OTHER ->
                [d EXCEPT !.call =
                    [call EXCEPT !.frames_processed = processed,
                                 !.pc = IF call.max_frames # 0
                                           /\ processed >= call.max_frames
                                        THEN "returned" ELSE "listening"]]

(***************************************************************************)
(* ConversationHistory                                                     *)
(***************************************************************************)
\* a message of the history; timestamp and metadata are left out
Message(role, content) == [role |-> role, content |-> content]

\* no history constructed yet
NoHistory == [built |-> FALSE, max_history |-> 0, messages |-> <<>>]

\* ConversationHistory.__init__
ConversationHistory(max_history) ==
    [built |-> TRUE, max_history |-> max_history, messages |-> <<>>]

\* the slice s[-n:] of Python: the last n elements, and all of s when n = 0
LastSlice(s, n) ==
    IF n = 0 \/ n >= Len(s) THEN s ELSE SubSeq(s, Len(s) - n + 1, Len(s))

add_message(h, message) ==
    LET appended == Append(h.messages, message)
    IN  [h EXCEPT !.messages =
            IF Len(appended) > h.max_history + 1
            THEN <<appended[1]>> \o LastSlice(appended, h.max_history)
            ELSE appended]

\* get_messages, get_full_messages
get_messages(h) == h.messages

clear(h) == [h EXCEPT !.messages = IF @ # <<>> THEN <<@[1]>> ELSE <<>>]

(***************************************************************************)
(* LLMModule                                                               *)
(*                                                                         *)
(* A text is the sequence of its characters.  The backend's answer is      *)
(* <<"reply">>, its tool calls <<"call">>.                                  *)
(***************************************************************************)
\* str.lower, on the letters that the texts of the model use
Lower(c) == IF c = "H" THEN "h" ELSE c

LowerAll(text) == [i \in DOMAIN text |-> Lower(text[i])]

RECURSIVE LStrip(_)
LStrip(text) ==
    IF text # <<>> /\ Head(text) = " " THEN LStrip(Tail(text)) ELSE text

RECURSIVE RStrip(_)
RStrip(text) ==
    IF text # <<>> /\ text[Len(text)] = " "
    THEN RStrip(SubSeq(text, 1, Len(text) - 1)) ELSE text

\* str.strip
Strip(text) == RStrip(LStrip(text))

\* user_message.lower().strip()
Normalize(text) == Strip(LowerAll(text))

\* word in text
Contains(text, word) ==
    \E i \in 1..(Len(text) - Len(word) + 1) : SubSeq(text, i, i + Len(word) - 1) = word

SYSTEM_PROMPT == <<"SYSTEM_PROMPT">>

\* {"response": ..., "tool_calls": ...}
Response(response, tool_calls) == [response |-> response, tool_calls |-> tool_calls]

\* dict.get: the response cached under key, or None
CacheGet(cache, key) ==
    IF \E i \in DOMAIN cache : cache[i].key = key
    THEN (CHOOSE e \in Range(cache) : e.key = key).response
    ELSE None

\* dict[key] = response: a present key keeps its place
CachePut(cache, key, response) ==
    IF \E i \in DOMAIN cache : cache[i].key = key
    THEN [i \in DOMAIN cache |->
            IF cache[i].key = key THEN [key |-> key, response |-> response]
            ELSE cache[i]]
    ELSE Append(cache, [key |-> key, response |-> response])

get_cached_response_exact(cache, user_message) == CacheGet(cache, user_message)

get_cached_response(cache, user_message) == CacheGet(cache, Normalize(user_message))

\* only responses without tool calls are cached; a full cache loses its
\* oldest entry first
cache_response(cache, user_message, response) ==
    IF response.tool_calls # None THEN cache
    ELSE CachePut(IF Len(cache) >= CacheSize THEN Tail(cache) ELSE cache,
                  Normalize(user_message), response)

\* the rule-based reply, for the words that the texts of the model can hold
CannedReply(user_message) ==
    LET normalized == LowerAll(user_message)
    IN  IF Contains(normalized, <<"h", "i">>) THEN <<"Hello">>
        ELSE IF Contains(normalized, <<"b", "y", "e">>) THEN <<"Goodbye">>
        ELSE <<"Unavailable">>

\* the state that the services share: history, offline cache, degraded mode
Assistant(h, cache, dm) == [history |-> h, cache |-> cache, dm |-> dm]

\* _get_degraded_response: the cached response, or the canned reply, which
\* is added to the history
get_degraded_response(st, user_message) ==
    LET cached == get_cached_response(st.cache, user_message)
        response == Response(CannedReply(user_message), None)
    IN  IF cached # None THEN [st |-> st, result |-> cached]
        ELSE [st |-> [st EXCEPT !.history =
                        add_message(@, Message("assistant", response.response))],
              result |-> response]

\* the outcome of a step of a service: the state it leaves, the failure it
\* raises or None, the value it returns
Step(st, raised, result) == [st |-> st, raised |-> raised, result |-> result]

\* _chat_once: backend is what ollama.chat does, "failed", "text" (an answer)
\* or "tools" (tool calls and no content); offline is
\* settings.enable_offline_mode, "unset" when Settings has no such attribute
chat_once(st, backend, offline) ==
    IF backend = "failed" THEN Step(st, <<"BackendError">>, None)
    ELSE LET content == IF backend = "text" THEN <<"reply">> ELSE <<>>
             tool_calls == IF backend = "tools" THEN <<"call">> ELSE None
             said == IF content # <<>> THEN content ELSE <<"json">> \o tool_calls
             h == add_message(st.history, Message("assistant", said))
             result == Response(content, tool_calls)
             dm == IF is_degraded(st.dm, "llm") THEN mark_recovered(st.dm, "llm")
                   ELSE st.dm
             recovered == [st EXCEPT !.history = h, !.dm = dm]
         IN  CASE offline = "unset" -> Step(recovered, <<"AttributeError">>, None)
               [] offline = "on" ->
                    Step([recovered EXCEPT !.cache =
                            cache_response(@, h.messages[Len(h.messages) - 1].content,
                                           result)],
                         None, result)
               [] OTHER -> Step(recovered, None, result)

ChatPolicy_two_attempts == RetryPolicy(2, 2, 2, 30)

\* @retry_with_backoff(max_attempts=3, initial_delay=2.0, backoff_factor=2.0,
\* exceptions=(Exception,)) on _chat_with_retry
ChatPolicy == RetryPolicy(3, 2, 2, 30)

(***************************************************************************)
(* STTModule and TTSModule                                                 *)
(***************************************************************************)
\* _transcribe_once: backend is what the Whisper model does, "failed" or "ok"
transcribe_once(st, backend) ==
    IF backend = "failed" THEN Step(st, <<"BackendError">>, None)
    ELSE Step([st EXCEPT !.dm = IF is_degraded(@, "stt")
                                 THEN mark_recovered(@, "stt") ELSE @],
              None, <<"transcription">>)

TranscribePolicy_two_attempts == RetryPolicy(2, 1, 2, 30)

\* @retry_with_backoff(max_attempts=3, initial_delay=1.0, backoff_factor=2.0,
\* exceptions=(Exception,)) on _transcribe_with_retry
TranscribePolicy == RetryPolicy(3, 1, 2, 30)

synthesize_once_unrecovered(st, backend) ==
    IF backend = "failed" THEN Step(st, <<"BackendError">>, None)
    ELSE Step(st, None, <<"audio">>)

\* _synthesize_once: backend is what piper does, "failed" or "ok"
synthesize_once(st, backend) ==
    IF backend = "failed" THEN Step(st, <<"BackendError">>, None)
    ELSE Step([st EXCEPT !.dm = IF is_degraded(@, "tts")
                                 THEN mark_recovered(@, "tts") ELSE @],
              None, <<"audio">>)

\* @retry_with_backoff(max_attempts=2, initial_delay=1.0, backoff_factor=2.0,
\* exceptions=(Exception,)) on _synthesize_with_retry
SynthesizePolicy == RetryPolicy(2, 1, 2, 30)

(***************************************************************************)
(* The services under their retry policies                                 *)
(***************************************************************************)
\* the single attempt of a service: "chat", "transcribe" or "synthesize"
ServiceOnce(once, st, outcome, offline) ==
    CASE once = "chat" -> chat_once(st, outcome, offline)
      [] once = "transcribe" -> transcribe_once(st, outcome)
      [] OTHER -> synthesize_once(st, outcome)

\* the decorated method run by its retry policy; every failure is retryable
RECURSIVE ServiceRetry(_, _, _, _, _, _)
ServiceRetry(once, run, st, outcomes, offline, result) ==
    IF run.status # "running" THEN [run |-> run, st |-> st, result |-> result]
    ELSE LET done == ServiceOnce(once, st, outcomes[run.attempt], offline)
         IN  ServiceRetry(once,
                          RetryAttempt(run, IF done.raised = None THEN "returns"
                                            ELSE "retryable"),
                          done.st, outcomes, offline, done.result)

\* the record of a service call.  attempts counts the calls of the primary
\* backend, probes lists the health probes consulted, fallback tells what
\* the fallback backend did if it was tried; before, offline_mode and cached
\* are the degraded set, the offline flag and the cache entry of the request
\* when the call began
NoService ==
    [op |-> "", request |-> <<>>, retry_logic |-> "", offline |-> "",
     fallback_setting |-> "", outcomes |-> <<>>, attempts |-> 0, sleeps |-> <<>>,
     exhausted |-> FALSE, probes |-> <<>>, fallback |-> "", raised |-> None,
     result |-> None, before |-> {}, offline_mode |-> FALSE, cached |-> None]

\* the state a service call leaves
AssistantFinish(st, call) ==
    /\ Len(st.history.messages) <= MaxMessages
    /\ history' = st.history
    /\ offline_cache' = st.cache
    /\ degraded_mode' = st.dm
    /\ service_call' = call
    /\ UNCHANGED <<executor_vars, retry, chain, added, database, callers, detector>>

Shared == Assistant(history, offline_cache, degraded_mode)

\* LLMModule.__init__: the history of settings.max_conversation_history
\* messages, started with the system prompt
llm_init(max_conversation_history) ==
    /\ ~history.built
    /\ history' = add_message(ConversationHistory(max_conversation_history),
                              Message("system", SYSTEM_PROMPT))
    /\ offline_cache' = <<>>
    /\ UNCHANGED <<executor_vars, turn, callers, detector, retry, chain, degraded_mode, added, database, service_call>>

\* LLMModule.chat
chat(user_message, outcomes, retry_logic, offline) ==
    LET asked == [Shared EXCEPT
                    !.history = add_message(@, Message("user", user_message))]
        cached == get_cached_response(offline_cache, user_message)
        call == [NoService EXCEPT !.op = "chat", !.request = user_message,
                                  !.retry_logic = retry_logic, !.offline = offline,
                                  !.outcomes = outcomes,
                                  !.before = degraded_mode.degraded_services,
                                  !.offline_mode = is_offline(degraded_mode),
                                  !.cached = CacheGet(offline_cache,
                                                      Normalize(user_message))]
    IN  /\ history.built
        /\ IF is_offline(degraded_mode) /\ offline = "unset"
           THEN AssistantFinish(asked, [call EXCEPT !.raised = <<"AttributeError">>])
           ELSE IF is_offline(degraded_mode) /\ offline = "on" /\ cached # None
           THEN AssistantFinish(asked, [call EXCEPT !.result = cached])
           ELSE CASE retry_logic = "unset" ->
                    AssistantFinish(asked, [call EXCEPT !.raised = <<"AttributeError">>])
                  [] retry_logic = "on" ->
                    LET loop == ServiceRetry("chat", RetryStart(ChatPolicy, <<>>, TRUE),
                                             asked, outcomes, offline, None)
                        tried == [call EXCEPT !.attempts = Len(loop.run.calls),
                                              !.sleeps = loop.run.sleeps]
                    IN  IF loop.run.status = "returned"
                        THEN AssistantFinish(loop.st, [tried EXCEPT !.result = loop.result])
                        ELSE LET marked == [loop.st EXCEPT
                                                !.dm = mark_degraded(@, "llm")]
                                 degraded == get_degraded_response(marked, user_message)
                             IN  AssistantFinish(degraded.st,
                                    [tried EXCEPT !.exhausted = TRUE,
                                                  !.result = degraded.result])
                  [] OTHER ->
                    LET done == chat_once(asked, outcomes[1], offline)
                    IN  AssistantFinish(done.st,
                            [call EXCEPT !.attempts = 1, !.raised = done.raised,
                                         !.result = done.result])

\* LLMModule.add_tool_result
add_tool_result(tool_result) ==
    /\ history.built
    /\ AssistantFinish([Shared EXCEPT
                            !.history = add_message(@, Message("tool", tool_result))],
                       [NoService EXCEPT !.op = "add_tool_result",
                                         !.request = tool_result])

\* LLMModule.reset_conversation
reset_conversation ==
    /\ history.built
    /\ AssistantFinish([Shared EXCEPT
                            !.history = add_message(clear(@),
                                                    Message("system", SYSTEM_PROMPT))],
                       [NoService EXCEPT !.op = "reset_conversation"])

\* STTModule.transcribe, called after initialize() has loaded the model.
\* fallback_setting is settings.enable_fallback_stt, fallback is what the
\* fallback recognizer does
transcribe(outcomes, retry_logic, fallback_setting, fallback) ==
    LET call == [NoService EXCEPT !.op = "transcribe", !.retry_logic = retry_logic,
                                  !.fallback_setting = fallback_setting,
                                  !.outcomes = outcomes,
                                  !.before = degraded_mode.degraded_services]
    IN  CASE retry_logic = "unset" ->
                AssistantFinish(Shared, [call EXCEPT !.raised = <<"AttributeError">>])
          [] retry_logic = "on" ->
                LET loop == ServiceRetry("transcribe",
                                         RetryStart(TranscribePolicy, <<>>, TRUE),
                                         Shared, outcomes, "", None)
                    tried == [call EXCEPT !.attempts = Len(loop.run.calls),
                                          !.sleeps = loop.run.sleeps]
                    marked == [loop.st EXCEPT !.dm = mark_degraded(@, "stt")]
                    failed == [tried EXCEPT !.exhausted = TRUE]
                IN  IF loop.run.status = "returned"
                    THEN AssistantFinish(loop.st, [tried EXCEPT !.result = loop.result])
                    ELSE CASE fallback_setting = "unset" ->
                                AssistantFinish(marked,
                                    [failed EXCEPT !.raised = <<"AttributeError">>])
                           [] fallback_setting = "on" /\ fallback = "ok" ->
                                AssistantFinish(marked,
                                    [failed EXCEPT !.fallback = fallback,
                                                   !.result = <<"fallback">>])
                           [] OTHER ->
                                AssistantFinish(marked,
                                    [failed EXCEPT
                                        !.fallback = IF fallback_setting = "on"
                                                     THEN fallback ELSE "",
                                        !.raised = <<"RuntimeError">>])
          [] OTHER ->
                LET done == transcribe_once(Shared, outcomes[1])
                IN  AssistantFinish(done.st,
                        [call EXCEPT !.attempts = 1, !.raised = done.raised,
                                     !.result = done.result])

\* TTSModule.synthesize; fallback is what espeak does
synthesize(text, outcomes, retry_logic, fallback) ==
    LET call == [NoService EXCEPT !.op = "synthesize", !.request = text,
                                  !.retry_logic = retry_logic,
                                  !.outcomes = outcomes,
                                  !.before = degraded_mode.degraded_services]
    IN  IF Strip(text) = <<>>
        THEN AssistantFinish(Shared, [call EXCEPT !.result = <<"empty">>])
        ELSE CASE retry_logic = "unset" ->
                AssistantFinish(Shared, [call EXCEPT !.raised = <<"AttributeError">>])
          [] retry_logic = "on" ->
                LET loop == ServiceRetry("synthesize",
                                         RetryStart(SynthesizePolicy, <<>>, TRUE),
                                         Shared, outcomes, "", None)
                    tried == [call EXCEPT !.attempts = Len(loop.run.calls),
                                          !.sleeps = loop.run.sleeps]
                    marked == [loop.st EXCEPT !.dm = mark_degraded(@, "tts")]
                IN  IF loop.run.status = "returned"
                    THEN AssistantFinish(loop.st, [tried EXCEPT !.result = loop.result])
                    ELSE AssistantFinish(marked,
                            [tried EXCEPT !.exhausted = TRUE, !.fallback = fallback,
                                          !.result = IF fallback = "ok"
                                                     THEN <<"fallback">>
                                                     ELSE <<"empty">>])
          [] OTHER ->
                LET done == synthesize_once(Shared, outcomes[1])
                IN  AssistantFinish(done.st,
                        [call EXCEPT !.attempts = 1, !.raised = done.raised,
                                     !.result = done.result])

\* the report of a probe of ServiceHealthChecker
Probe(name, healthy) == [name |-> name, healthy |-> healthy]

\* Jarvis._perform_health_checks, run once when the assistant starts: only
\* an unreachable Ollama marks a service degraded
perform_health_checks(ollama, audio_device, piper_binary) ==
    /\ history.built
    /\ service_call = NoService
    /\ AssistantFinish(
            [Shared EXCEPT !.dm = IF ollama THEN @ ELSE mark_degraded(@, "llm")],
            [NoService EXCEPT
                !.op = "perform_health_checks",
                !.probes = << Probe("check_ollama", ollama),
                              Probe("check_audio_device", audio_device),
                              Probe("check_file_exists", piper_binary) >>,
                !.before = degraded_mode.degraded_services])

(***************************************************************************)
(* ActionExecutor.fetch_web_page                                           *)
(***************************************************************************)
\* urlparse(url).path taken for the netloc
Netloc_path(url) == url[3]

\* urlparse(url).netloc: empty when the url has no "scheme://", the bytes
\* b'' when the url is None
Netloc(url) ==
    IF url = None THEN BytesKey[1] ELSE IF url[1] = "" THEN "" ELSE url[2]

\* _fetch_once catches every exception and returns a string
FetchOnce(url, net) ==
    [result |-> IF url # None /\ net = "ok" THEN "Content" ELSE "ErrorFetching",
     raised |-> FALSE,
     effects |-> <<Effect("requests.get", <<url>>)>>]

\* the outcome of requests.get at the k-th attempt; the last outcome of nets
\* lasts
NetAt(nets, k) == nets[Min(k, Len(nets))]

\* @retry_with_backoff(max_attempts=3, initial_delay=2.0, backoff_factor=2.0,
\* exceptions=(requests.RequestException, ConnectionError, TimeoutError)),
\* max_delay left at its default
FetchPolicy == RetryPolicy(3, 2, 2, 30)

\* _fetch_with_retry: the wrapper of retry_with_backoff around a function
\* that calls _fetch_once; a call that raises is retried, but _fetch_once
\* never raises.  The effects are the requests and the sleeps between them;
\* RetryExhaustedError is caught by fetch_web_page.
FetchWithRetry(url, nets) ==
    LET outcomes == [k \in 1..FetchPolicy.max_attempts |->
                        IF FetchOnce(url, NetAt(nets, k)).raised
                        THEN "retryable" ELSE "returns"]
        run == RetryLoop(RetryStart(FetchPolicy, <<url>>, TRUE), outcomes)
    IN  [result |-> IF run.status = "returned"
                    THEN FetchOnce(url, NetAt(nets, Len(run.calls))).result
                    ELSE "UnableToFetch",
         raised |-> FALSE,
         effects |-> [i \in 1..(Len(run.calls) + Len(run.sleeps)) |->
                        IF i % 2 = 1 THEN Effect("requests.get", <<url>>)
                        ELSE Effect("time.sleep", <<run.sleeps[i \div 2]>>)]]

\* retry_logic is settings.enable_retry_logic: "unset" when Settings has no
\* such attribute
fetch_web_page(url, answer, retry_logic, nets) ==
    LET asked == [NoRequest EXCEPT !.url = url]
        \* the setting and the network are read once the gate has approved
        request == [asked EXCEPT !.retry_logic = retry_logic, !.nets = nets]
        op == "fetch_web_page"
        gate == request_confirmation(whitelist, confirmation_callback, "web_urls",
                                     <<Netloc(url)>>, FALSE, answer)
    IN  IF GateRaised(gate)
        THEN Finish(Store, Filesystem,
                    Call(op, asked, TRUE, gate, "HandlerError", TRUE, <<>>))
        ELSE IF ~gate.execute
        THEN Finish(Store, Filesystem,
                    Call(op, asked, TRUE, gate, "Cancelled", FALSE, <<>>))
        ELSE LET done == CASE retry_logic = "unset" ->
                                [result |-> "AttributeError", raised |-> TRUE,
                                 effects |-> <<>>]
                           [] retry_logic = "on" -> FetchWithRetry(url, nets)
                           [] OTHER -> FetchOnce(url, NetAt(nets, 1))
             IN  Finish(RememberDecision(Store, gate), Filesystem,
                        Call(op, request, TRUE, gate, done.result, done.raised,
                             done.effects))

(***************************************************************************)
(* Calls of the gate and of the store from outside the executor            *)
(***************************************************************************)
call_request_confirmation(category, item, force, answer) ==
    LET gate == request_confirmation(whitelist, confirmation_callback, category,
                                     item, force, answer)
    IN  Finish(Store, Filesystem,
               Call("_request_confirmation",
                    [NoRequest EXCEPT !.category = category, !.item = item],
                    TRUE, gate, "Decision", FALSE, <<>>))

call_add_to_whitelist(category, item) ==
    Finish(add_to_whitelist(Store, category, item), Filesystem,
           Call("add_to_whitelist",
                [NoRequest EXCEPT !.category = category, !.item = item],
                TRUE, NoGate, "None", FALSE, <<>>))

call_remove_from_whitelist(category, item) ==
    Finish(remove_from_whitelist(Store, category, item), Filesystem,
           Call("remove_from_whitelist",
                [NoRequest EXCEPT !.category = category, !.item = item],
                TRUE, NoGate, "None", FALSE, <<>>))

(***************************************************************************)
(* SQLiteBackend (persistence_module.py)                                   *)
(*                                                                         *)
(* The table sessions maps a session_id to its row; the table messages is  *)
(* the sequence of its rows in the order of their ids.  A timestamp is a   *)
(* number, compared as the ISO texts are.                                  *)
(***************************************************************************)
\* a message as ConversationHistory keeps it and as save_session reads it
StoredMessage(role, content, timestamp) ==
    [role |-> role, content |-> content, timestamp |-> timestamp]

\* a row of the table messages
MessageRow(session_id, msg) ==
    [session_id |-> session_id, role |-> msg.role, content |-> msg.content,
     timestamp |-> msg.timestamp]

\* a call of the backend, with what load_session returned
BackendCall(op, session_id, result) ==
    [op |-> op, session_id |-> session_id, result |-> result]

\* _init_database on a new file: two empty tables.  saved keeps, for every
\* session_id, the messages of its last save_session, or None once deleted
SQLiteBackend ==
    [sessions |-> [id \in {} |-> None], messages |-> <<>>,
     saved |-> [id \in {} |-> None], call |-> BackendCall("__init__", "", None)]

\* DELETE FROM messages WHERE session_id = ?
DeleteMessages(rows, session_id) ==
    SelectSeq(rows, LAMBDA row : row.session_id # session_id)

\* INSERT INTO messages, one row for each message in turn
InsertMessages(rows, session_id, messages) ==
    rows \o [i \in DOMAIN messages |-> MessageRow(session_id, messages[i])]

\* save_session: INSERT OR REPLACE of the session's row, then the messages
\* of the session replaced
save_session(db, session_id, messages) ==
    [db EXCEPT
        !.sessions = [id \in DOMAIN @ \cup {session_id} |->
                        IF id = session_id THEN [message_count |-> Len(messages)]
                        ELSE @[id]],
        !.messages = InsertMessages(DeleteMessages(@, session_id), session_id,
                                    messages),
        !.saved = [id \in DOMAIN @ \cup {session_id} |->
                        IF id = session_id THEN messages ELSE @[id]],
        !.call = BackendCall("save_session", session_id, None)]

\* the least timestamp of some rows
LeastTimestamp(rows) ==
    CHOOSE t \in {rows[i].timestamp : i \in DOMAIN rows} :
        \A i \in DOMAIN rows : t <= rows[i].timestamp

\* ORDER BY timestamp ASC: rows of equal timestamps stay in the order of
\* their ids
RECURSIVE OrderByTimestamp(_)
OrderByTimestamp(rows) ==
    IF rows = <<>> THEN <<>>
    ELSE LET least == LeastTimestamp(rows)
         IN  SelectSeq(rows, LAMBDA row : row.timestamp = least)
                \o OrderByTimestamp(SelectSeq(rows, LAMBDA row : row.timestamp # least))

\* load_session: None without a row in sessions, else the session with its
\* messages in the order of their timestamps
load_session(db, session_id) ==
    IF session_id \notin DOMAIN db.sessions
    THEN [db EXCEPT !.call = BackendCall("load_session", session_id, None)]
    ELSE LET rows == OrderByTimestamp(
                        SelectSeq(db.messages,
                                  LAMBDA row : row.session_id = session_id))
             session ==
                [session_id |-> session_id,
                 message_count |-> db.sessions[session_id].message_count,
                 messages |-> [i \in DOMAIN rows |->
                                StoredMessage(rows[i].role, rows[i].content,
                                              rows[i].timestamp)]]
         IN  [db EXCEPT !.call = BackendCall("load_session", session_id, session)]

\* delete_session
delete_session(db, session_id) ==
    [db EXCEPT
        !.sessions = [id \in DOMAIN @ \ {session_id} |-> @[id]],
        !.messages = DeleteMessages(@, session_id),
        !.saved = [id \in DOMAIN @ \ {session_id} |-> @[id]],
        !.call = BackendCall("delete_session", session_id, None)]

(***************************************************************************)
(* ActionExecutor.execute_tool_call                                        *)
(***************************************************************************)
\* a tool call of the LLM: tool_call["function"] with its name and arguments
ToolCall(function_name, arguments) ==
    [function_name |-> function_name, arguments |-> arguments]

NoArguments == [a \in {} |-> None]

NoToolCall ==
    [request |-> ToolCall("", NoArguments), dispatched |-> FALSE,
     raised |-> FALSE, result |-> ""]

\* arguments.get(name)
Argument(arguments, name) ==
    IF name \in DOMAIN arguments THEN arguments[name] ELSE None

\* the operations that execute_tool_call dispatches to
ToolNames == {"execute_file_operation", "fetch_web_page", "launch_application"}

Dispatch_bare(operation) ==
    [dispatched |-> TRUE, raised |-> operation.raised,
     result |-> operation.result]

\* the try block of execute_tool_call around the operation called: what the
\* operation returns, or "Error executing tool" for what it raises
Dispatch(operation) ==
    [dispatched |-> TRUE, raised |-> FALSE,
     result |-> IF operation.raised THEN "ErrorExecutingTool"
                ELSE operation.result]

\* answer, proc, retry_logic and nets are what the handler, the process, the
\* settings and the network do if the operation gets to them
execute_tool_call(call, answer, proc, retry_logic, nets) ==
    LET arguments == call.arguments
        operation == IF "operation" \in DOMAIN arguments THEN arguments.operation
                     ELSE "None"
    IN  IF call.function_name \in ToolNames
        THEN /\ CASE call.function_name = "execute_file_operation" ->
                        execute_file_operation(operation, Argument(arguments, "path"),
                                               answer)
                   [] call.function_name = "fetch_web_page" ->
                        fetch_web_page(Argument(arguments, "url"), answer,
                                       retry_logic, nets)
                   [] OTHER ->
                        launch_application(Argument(arguments, "application"),
                                           Argument(arguments, "args"), answer, proc)
             /\ tool_call' = [request |-> call] @@ Dispatch(last')
        ELSE /\ tool_call' = [request |-> call, dispatched |-> FALSE,
                              raised |-> FALSE, result |-> "UnknownTool"]
             /\ UNCHANGED <<whitelist, whitelist_file, confirmation_callback, files,
                            dirs, last, retry, chain, assistant_vars>>

(***************************************************************************)
(* JarvisAssistant.process_user_input                                      *)
(***************************************************************************)
\* where process_user_input is, the tool calls of the response, the results
\* it has got so far, and what it has done so far, in order
Turn(pc, tool_calls, tool_results, trace) ==
    [pc |-> pc, tool_calls |-> tool_calls, tool_results |-> tool_results,
     trace |-> trace]

\* process_user_input is not running
NoTurn == Turn("idle", <<>>, <<>>, <<>>)

\* the text of the follow-up request
FollowUpText == <<"P", "l", "e", "a", "s", "e">>

\* result = self.llm.chat(user_text): it raises, or the response carries
\* tool_calls, or response_text is returned at once
process_user_input(user_text, outcomes, retry_logic, offline, tool_calls) ==
    /\ turn.pc \in {"idle", "returned", "raised"}
    /\ chat(user_text, outcomes, retry_logic, offline)
    /\ turn' = IF service_call'.raised # None
               THEN Turn("raised", <<>>, <<>>, << <<"chat">> >>)
               ELSE IF service_call'.result.tool_calls # None
               THEN Turn("execute", tool_calls, <<>>, << <<"chat">> >>)
               ELSE Turn("returned", <<>>, <<>>, << <<"chat">> >>)

\* tool_result = self.executor.execute_tool_call(tool_call), for the next
\* tool call of the loop; tool_results.append(tool_result)
execute_next(answer, proc, retry_logic, nets) ==
    LET i == Len(turn.tool_results) + 1
    IN  /\ turn.pc = "execute"
        /\ execute_tool_call(turn.tool_calls[i], answer, proc, retry_logic, nets)
        /\ turn' = IF tool_call'.raised
                   THEN [turn EXCEPT !.pc = "raised",
                                     !.trace = Append(@, <<"execute", i>>)]
                   ELSE [turn EXCEPT !.pc = "record",
                                     !.tool_results = Append(@, tool_call'.result),
                                     !.trace = Append(@, <<"execute", i>>)]

\* self.llm.add_tool_result(function_name, tool_result), then the next tool
\* call, or the follow-up after the last one
record_result ==
    LET i == Len(turn.tool_results)
    IN  /\ turn.pc = "record"
        /\ add_tool_result(<<turn.tool_calls[i].function_name, turn.tool_results[i]>>)
        /\ turn' = [turn EXCEPT !.pc = IF i = Len(turn.tool_calls) THEN "follow_up"
                                       ELSE "execute",
                                !.trace = Append(@, <<"record", i>>)]

\* follow_up = self.llm.chat("Please provide a natural response based on the
\* tool results."); return follow_up["response"]
follow_up(outcomes, retry_logic, offline) ==
    /\ turn.pc = "follow_up"
    /\ chat(FollowUpText, outcomes, retry_logic, offline)
    /\ turn' = [turn EXCEPT !.pc = IF service_call'.raised # None THEN "raised"
                                   ELSE "returned",
                            !.trace = Append(@, <<"follow_up">>)]

(***************************************************************************)
(* Specifications                                                          *)
(***************************************************************************)
\* command_whitelist.json when the program starts: absent, or left by an earlier run
InitialFiles ==
    { [exists |-> FALSE, valid |-> FALSE, data |-> [c \in {} |-> <<>>]],
      [exists |-> TRUE, valid |-> TRUE,
       data |-> [c \in {"applications"} |-> << <<"ls">> >>]] }

Init ==
    /\ whitelist_file \in InitialFiles
    /\ whitelist = load_whitelist(whitelist_file)
    /\ confirmation_callback \in BOOLEAN
    /\ files = {<<"etc", "passwd">>}
    /\ dirs = {<<>>, <<"home">>, <<"tmp">>, <<"etc">>}
    /\ last = Call("__init__", NoRequest, TRUE, NoGate, "None", FALSE, <<>>)
    /\ tool_call = NoToolCall
    /\ retry = RetryIdle
    /\ chain = ChainIdle
    /\ degraded_mode = DegradedModeManager
    /\ history = NoHistory
    /\ added = <<>>
    /\ database = SQLiteBackend
    /\ offline_cache = <<>>
    /\ service_call = NoService
    /\ turn = NoTurn
    /\ callers = NoCallers
    /\ detector = NoDetector

FileOperationStep ==
    \E operation \in Operations, path \in Paths, answer \in Answers :
        execute_file_operation(operation, path, answer)
        /\ UNCHANGED <<tool_call, turn>>

LaunchStep ==
    \E l \in Launches, answer \in Answers, proc \in ProcOutcomes :
        launch_application(l.application, l.args, answer, proc)
        /\ UNCHANGED <<tool_call, turn>>

FetchStep ==
    \E url \in Urls, answer \in Answers, retry_logic \in RetrySettings, net \in NetOutcomes :
        fetch_web_page(url, answer, retry_logic, <<net>>)
        /\ UNCHANGED <<tool_call, turn>>

GateStep ==
    \E category \in Categories, item \in ApiKeys, force \in BOOLEAN, answer \in Answers :
        call_request_confirmation(category, item, force, answer)
        /\ UNCHANGED <<tool_call, turn>>

AddStep ==
    \E category \in Categories, item \in ApiKeys :
        call_add_to_whitelist(category, item) /\ UNCHANGED <<tool_call, turn>>

RemoveStep ==
    \E category \in Categories, item \in ApiKeys :
        call_remove_from_whitelist(category, item)
        /\ UNCHANGED <<tool_call, turn>>

Next == FileOperationStep \/ LaunchStep \/ FetchStep

\* the running program: the executor's three operations
Spec == Init /\ [][Next]_vars

\* the gate and the store called directly
NextGate == GateStep \/ AddStep \/ RemoveStep

SpecGate == Init /\ [][NextGate]_vars

\* launches over a whitelist that the store's interface edits
NextLaunch == LaunchStep \/ AddStep \/ RemoveStep

SpecLaunch == Init /\ [][NextLaunch]_vars

\* file requests in two directories of an allowed root, one of them also
\* spelled through ".."
CachePaths ==
    { <<"tmp", "d", "f">>, <<"tmp", "d", "g">>, <<"tmp", "e", "f">>,
      <<"tmp", "e", "..", "d", "g">> }

\* the two confirmed verbs that the executor implements
CacheOperations == {"create_file", "delete_file"}

FileCacheStep ==
    \E operation \in CacheOperations, path \in CachePaths, answer \in Answers :
        execute_file_operation(operation, path, answer)
        /\ UNCHANGED <<tool_call, turn>>

\* file operations on several files of the same and of different directories
SpecCache == Init /\ [][FileCacheStep]_vars

\* the policies executed: delays below and above max_delay, constant and
\* doubling backoff
RetryPolicies ==
    { RetryPolicy(n, d, b, m) : n \in 1..MaxAttempts, d \in {1, 5}, b \in {1, 2},
                                m \in {3, 30} }

\* the caller's arguments
RetryArguments == {<<"x">>, <<"x", "y">>}

\* policy.execute(func, *args), directly or through the decorator's wrapper
retry_execute ==
    /\ retry.status # "running"
    /\ \E policy \in RetryPolicies, args \in RetryArguments, wrapped \in BOOLEAN :
            retry' = RetryStart(policy, args, wrapped)
    /\ UNCHANGED <<executor_vars, turn, callers, detector, chain, assistant_vars>>

\* the next iteration of the loop
retry_attempt ==
    /\ retry.status = "running"
    /\ \E outcome \in CallOutcomes : retry' = RetryAttempt(retry, outcome)
    /\ UNCHANGED <<executor_vars, turn, callers, detector, chain, assistant_vars>>

NextRetry == retry_execute \/ retry_attempt

\* executions of a retry policy
SpecRetry == Init /\ [][NextRetry]_vars

RECURSIVE SeqsUpTo(_, _)
\* the non-empty sequences over S of length at most n
SeqsUpTo(S, n) ==
    IF n = 0 THEN {}
    ELSE LET shorter == SeqsUpTo(S, n - 1)
         IN  {<<x>> : x \in S} \cup shorter
                \cup {Append(s, x) : s \in shorter, x \in S}

\* the chains executed: a primary and up to MaxCandidates - 1 fallbacks
Chains ==
    SeqsUpTo({Candidate(named, outcome) :
                named \in BOOLEAN, outcome \in {"returns", "fails"}},
             MaxCandidates)

chain_execute ==
    /\ chain.status # "running"
    /\ \E functions \in Chains : chain' = ChainStart(functions)
    /\ UNCHANGED <<executor_vars, turn, callers, detector, retry, assistant_vars>>

\* the next iteration of the loop
chain_try ==
    /\ chain.status = "running"
    /\ chain' = ChainTry(chain)
    /\ UNCHANGED <<executor_vars, turn, callers, detector, retry, assistant_vars>>

NextChain == chain_execute \/ chain_try

\* executions of fallback chains
SpecChain == Init /\ [][NextChain]_vars

\* two pages of one site, one of them with a query, and a page of another
FetchUrls ==
    { <<"https", "example.com", "a">>, <<"https", "example.com", "b?q=1">>,
      <<"https", "other.org", "a">> }

\* what requests.get does at the first, second and third attempt
FetchNets == {<<a, b, c>> : a \in NetOutcomes, b \in NetOutcomes, c \in NetOutcomes}

FetchRetryStep ==
    \E url \in FetchUrls, answer \in Answers, retry_logic \in RetrySettings,
       nets \in FetchNets :
        fetch_web_page(url, answer, retry_logic, nets)
        /\ UNCHANGED <<tool_call, turn>>

\* fetches of several sites over a network that fails and recovers
SpecFetch == Init /\ [][FetchRetryStep]_vars

\* the services named in the code, and one more
Services == {"llm", "stt", "tts", "audio"}

MarkDegradedStep ==
    /\ \E service \in Services : degraded_mode' = mark_degraded(degraded_mode, service)
    /\ UNCHANGED <<executor_vars, turn, callers, detector, retry, chain, history, added, database, offline_cache,
                   service_call>>

MarkRecoveredStep ==
    /\ \E service \in Services : degraded_mode' = mark_recovered(degraded_mode, service)
    /\ UNCHANGED <<executor_vars, turn, callers, detector, retry, chain, history, added, database, offline_cache,
                   service_call>>

EnableOfflineStep ==
    /\ degraded_mode' = enable_offline_mode(degraded_mode)
    /\ UNCHANGED <<executor_vars, turn, callers, detector, retry, chain, history, added, database, offline_cache,
                   service_call>>

DisableOfflineStep ==
    /\ degraded_mode' = disable_offline_mode(degraded_mode)
    /\ UNCHANGED <<executor_vars, turn, callers, detector, retry, chain, history, added, database, offline_cache,
                   service_call>>

NextDegraded ==
    MarkDegradedStep \/ MarkRecoveredStep \/ EnableOfflineStep \/ DisableOfflineStep

\* the manager called in any order
SpecDegraded == Init /\ [][NextDegraded]_vars

\* what the user says: a greeting in two spellings and a question
UserMessages == { <<"H", "i">>, <<" ", "h", "i", " ">>, <<"w", "h", "y">> }

\* what ollama.chat does at the first, second and third attempt
ChatOutcomes ==
    { <<"failed", "failed", "failed">>, <<"failed", "failed", "text">>,
      <<"text", "text", "text">>, <<"tools", "tools", "tools">> }

\* a setting that Settings may not declare
OptionalSettings == {"unset", "on", "off"}

\* settings.max_conversation_history: none, one or two messages kept
HistorySettings == {0, 1, 2}

LLMInitStep ==
    \E max_conversation_history \in HistorySettings :
        llm_init(max_conversation_history)

ChatStep ==
    \E user_message \in UserMessages, outcomes \in ChatOutcomes,
       retry_logic \in OptionalSettings, offline \in OptionalSettings :
        chat(user_message, outcomes, retry_logic, offline) /\ UNCHANGED turn

AddToolResultStep == add_tool_result(<<"result">>) /\ UNCHANGED turn

ResetStep == reset_conversation /\ UNCHANGED turn

NextLLM == LLMInitStep \/ ChatStep \/ AddToolResultStep \/ ResetStep

\* the LLM module: conversations over a backend that fails and recovers
SpecLLM == Init /\ [][NextLLM]_vars

\* what the primary backend of a service does at each attempt: it fails, or
\* fails until its last attempt, or works
BackendOutcomes(attempts) ==
    { [k \in 1..attempts |-> "failed"],
      [k \in 1..attempts |-> IF k < attempts THEN "failed" ELSE "ok"],
      [k \in 1..attempts |-> "ok"] }

\* what a fallback backend does
FallbackOutcomes == {"failed", "ok"}

\* what is given to speak: nothing, blanks, a word
Texts == { <<>>, <<" ">>, <<"h", "i">> }

HealthChecksStep ==
    \E ollama \in BOOLEAN, audio_device \in BOOLEAN, piper_binary \in BOOLEAN :
        perform_health_checks(ollama, audio_device, piper_binary) /\ UNCHANGED turn

TranscribeStep ==
    \E outcomes \in BackendOutcomes(3), retry_logic \in OptionalSettings,
       fallback_setting \in OptionalSettings, fallback \in FallbackOutcomes :
        transcribe(outcomes, retry_logic, fallback_setting, fallback) /\ UNCHANGED turn

SynthesizeStep ==
    \E text \in Texts, outcomes \in BackendOutcomes(2),
       retry_logic \in OptionalSettings, fallback \in FallbackOutcomes :
        synthesize(text, outcomes, retry_logic, fallback) /\ UNCHANGED turn

\* a conversation of one message kept, about one thing
ServicesInitStep == llm_init(1)

ServicesChatStep ==
    \E outcomes \in ChatOutcomes, retry_logic \in OptionalSettings,
       offline \in {"unset", "off"} :
        chat(<<"H", "i">>, outcomes, retry_logic, offline) /\ UNCHANGED turn

NextServices ==
    \/ ServicesInitStep
    \/ HealthChecksStep
    \/ ServicesChatStep
    \/ TranscribeStep
    \/ SynthesizeStep

\* the assistant started, then listening, answering and speaking over
\* backends that fail and recover
SpecServices == Init /\ [][NextServices]_vars

\* the tool calls of the LLM: the three tools with their arguments or
\* without, a tool that does not exist, a call without a name
ToolCalls ==
    { ToolCall("execute_file_operation",
               [operation |-> "create_file", path |-> <<"tmp", "d", "f">>]),
      ToolCall("execute_file_operation",
               [operation |-> "delete_file", path |-> <<"tmp", "d", "f">>]),
      ToolCall("execute_file_operation",
               [operation |-> "read_file", path |-> <<"etc", "passwd">>]),
      ToolCall("execute_file_operation", [path |-> <<"tmp", "d">>]),
      ToolCall("execute_file_operation", [operation |-> "create_file"]),
      ToolCall("fetch_web_page", [url |-> <<"https", "example.com", "a">>]),
      ToolCall("fetch_web_page", NoArguments),
      ToolCall("launch_application",
               [application |-> <<"ls">>, args |-> <<"-l">>]),
      ToolCall("launch_application", [application |-> <<"firefox">>]),
      ToolCall("launch_application", [args |-> <<"x">>]),
      ToolCall("shutdown", NoArguments),
      ToolCall("", NoArguments) }

\* what the handler does when it is asked: it answers, or it raises
HandlerOutcomes == Answers \cup {HandlerRaises}

\* the process matters to a launch, the settings and the network to a fetch
ToolCallStep ==
    \E call \in ToolCalls, answer \in HandlerOutcomes :
        \E proc \in IF call.function_name = "launch_application"
                     THEN ProcOutcomes ELSE {"ok"},
           retry_logic \in IF call.function_name = "fetch_web_page"
                            THEN RetrySettings ELSE {"off"},
           net \in IF call.function_name = "fetch_web_page"
                    THEN NetOutcomes ELSE {"ok"} :
            execute_tool_call(call, answer, proc, retry_logic, <<net>>)
            /\ UNCHANGED turn

\* the tool calls of an LLM, served by the executor's entry point
SpecTool == Init /\ [][ToolCallStep]_vars

\* the LLM asks for a page without naming its url
StoreToolStep ==
    \E answer \in Answers :
        execute_tool_call(ToolCall("fetch_web_page", NoArguments), answer, "ok",
                          "off", <<"ok">>)
        /\ UNCHANGED turn

NextStore == AddStep \/ RemoveStep \/ StoreToolStep

\* the store called by its owner, between tool calls that remember a key
SpecStore == Init /\ [][NextStore]_vars

\* the messages of a conversation
Messages ==
    { Message("system", <<"a">>), Message("user", <<"a">>), Message("user", <<"b">>),
      Message("assistant", <<"b">>) }

\* ConversationHistory(max_history)
HistoryInitStep ==
    /\ ~history.built
    /\ \E max_history \in 0..MaxHistory : history' = ConversationHistory(max_history)
    /\ UNCHANGED <<executor_vars, turn, callers, detector, retry, chain, degraded_mode, added, database, offline_cache,
                   service_call>>

\* ConversationHistory.add_message
HistoryAddStep ==
    /\ history.built
    /\ Len(added) <= MaxMessages
    /\ \E message \in Messages :
            /\ history' = add_message(history, message)
            /\ added' = Append(added, message)
    /\ UNCHANGED <<executor_vars, turn, callers, detector, retry, chain, degraded_mode, database,
                   offline_cache, service_call>>

NextHistory == HistoryInitStep \/ HistoryAddStep

\* a history of any size limit, given messages one after the other
SpecHistory == Init /\ [][NextHistory]_vars

SessionIds == {"s1", "s2"}

\* the texts of datetime.now().isoformat() at two moments
Timestamps == 1..2

\* the messages of a conversation, stamped when they were added; the clock
\* of the machine may have been set back between two of them
StoredMessages ==
    { StoredMessage("user", <<"a">>, t) : t \in Timestamps }
        \cup { StoredMessage("assistant", <<"b">>, t) : t \in Timestamps }

StorageUnchanged ==
    UNCHANGED <<executor_vars, turn, callers, detector, retry, chain, degraded_mode, history, added,
                offline_cache, service_call>>

SaveSessionStep ==
    /\ \E session_id \in SessionIds :
            \E n \in 0..MaxSaved : \E messages \in [1..n -> StoredMessages] :
                database' = save_session(database, session_id, messages)
    /\ StorageUnchanged

LoadSessionStep ==
    /\ \E session_id \in SessionIds : database' = load_session(database, session_id)
    /\ StorageUnchanged

DeleteSessionStep ==
    /\ \E session_id \in SessionIds : database' = delete_session(database, session_id)
    /\ StorageUnchanged

NextStorage == SaveSessionStep \/ LoadSessionStep \/ DeleteSessionStep

\* sessions saved, loaded and deleted in any order
SpecStorage == Init /\ [][NextStorage]_vars

\* the tool calls of a response: one that changes the filesystem, one that
\* fails before its gate, one whose handler may raise, one that is unknown
TurnCalls ==
    { ToolCall("execute_file_operation",
               [operation |-> "create_file", path |-> <<"tmp", "d", "f">>]),
      ToolCall("execute_file_operation", [operation |-> "create_file"]),
      ToolCall("launch_application", [application |-> <<"firefox">>]),
      ToolCall("shutdown", NoArguments) }

\* a conversation of two messages kept
TurnInitStep == llm_init(2) /\ UNCHANGED turn

\* the user says something and the backend answers, with tool calls or not
TurnChatStep ==
    \E outcomes \in ChatOutcomes, retry_logic \in {"on", "off"} :
        \E n \in 1..MaxTools : \E tool_calls \in [1..n -> TurnCalls] :
            process_user_input(<<"H", "i">>, outcomes, retry_logic, "off", tool_calls)

TurnExecuteStep ==
    \E answer \in HandlerOutcomes, proc \in {"ok", "oserror"} :
        execute_next(answer, proc, "off", <<"ok">>)

TurnRecordStep == record_result

TurnFollowUpStep ==
    \E outcomes \in ChatOutcomes, retry_logic \in {"on", "off"} :
        follow_up(outcomes, retry_logic, "off")

NextTurn ==
    \/ TurnInitStep
    \/ TurnChatStep
    \/ TurnExecuteStep
    \/ TurnRecordStep
    \/ TurnFollowUpStep

\* the assistant answering what the user says, one request after the other
SpecTurn == Init /\ [][NextTurn]_vars

\* a conversation of two messages kept
OfflineInitStep == llm_init(2) /\ UNCHANGED turn

\* the user repeats a greeting or asks a question; the settings enable the
\* offline cache or not
OfflineChatStep ==
    \E user_message \in UserMessages, outcomes \in ChatOutcomes,
       retry_logic \in OptionalSettings, offline \in {"on", "off"} :
        chat(user_message, outcomes, retry_logic, offline) /\ UNCHANGED turn

NextOffline ==
    \/ OfflineInitStep
    \/ EnableOfflineStep
    \/ DisableOfflineStep
    \/ OfflineChatStep

\* a conversation during which the offline flag of the tracker is set and
\* cleared
SpecOffline == Init /\ [][NextOffline]_vars

CallersUnchanged ==
    UNCHANGED <<executor_vars, turn, detector, retry, chain, history, added, database,
                offline_cache, service_call>>

\* two features report the failure or the recovery of the same service
CallersStartStep ==
    /\ \E service \in {"llm", "stt"}, ops \in [Threads -> {"mark_degraded", "mark_recovered"}] :
            callers_start(service, ops)
    /\ CallersUnchanged

CallerStep == (\E t \in Threads : caller_step(t)) /\ CallersUnchanged

NextCallers == CallersStartStep \/ CallerStep

\* pairs of calls on the shared manager, their steps interleaved in any order
SpecCallers == Init /\ [][NextCallers]_vars

DetectorUnchanged ==
    UNCHANGED <<executor_vars, turn, callers, retry, chain, degraded_mode, history, added,
                database, offline_cache, service_call>>

\* the timeouts of a call in milliseconds: None, shorter than a frame, longer
Timeouts == {0, 10, 40, 100}

\* the sample rates asked for, in samples per millisecond
SampleRates == {8, 16}

DetectorNewStep ==
    /\ ~detector.built
    /\ \E sample_rate \in SampleRates : detector' = WakeWordDetector(sample_rate)
    /\ DetectorUnchanged

Quiet == detector.built /\ detector.call.pc # "listening"

InitializeStep ==
    /\ Quiet
    /\ \E created \in BOOLEAN : detector' = initialize(detector, created)
    /\ DetectorUnchanged

CleanupStep == Quiet /\ detector' = cleanup(detector) /\ DetectorUnchanged

ListenStep ==
    /\ Quiet
    /\ \E timeout \in Timeouts : detector' = listen_for_wake_word(detector, timeout)
    /\ DetectorUnchanged

ListenFrameStep ==
    /\ detector.call.pc = "listening"
    /\ detector.call.frames_read < MaxFrames
    /\ \E frame \in {"keyword", "silence", "error"} :
            detector' = listen_frame(detector, frame)
    /\ DetectorUnchanged

NextDetector ==
    \/ DetectorNewStep
    \/ InitializeStep
    \/ CleanupStep
    \/ ListenStep
    \/ ListenFrameStep

\* the detector initialized, listening frame after frame, cleaned up
SpecDetector == Init /\ [][NextDetector]_vars

(***************************************************************************)
(* Properties                                                              *)
(***************************************************************************)
\* item is a key of category in the whitelist wl
Member(wl, category, item) == category \in DOMAIN wl /\ item \in wl[category]

GateCall == last.op = "_request_confirmation"

\* C1: a non-forced call of the gate with a handler configured invokes the
\* handler if and only if the key is not in the whitelist under the call's
\* category; when it is, the gate returns (execute, not remember) without
\* invoking the handler.  Keys of other categories play no part.
C1_GateAsksIffNotWhitelisted ==
    (GateCall /\ ~last.gate.force /\ confirmation_callback) =>
        LET member == Member(whitelist, last.request.category, last.request.item)
        IN  /\ (last.gate.calls = 1) <=> ~member
            /\ last.gate.calls \in {0, 1}
            /\ member => (last.gate.execute /\ ~last.gate.remember)

\* the key is whitelisted under the category: approved without the handler
C1_Witness ==
    /\ GateCall /\ ~last.gate.force /\ confirmation_callback
    /\ Member(whitelist, last.request.category, last.request.item)
    /\ last.gate.calls = 0 /\ last.gate.execute /\ ~last.gate.remember

\* C2: a forced call of the gate with a handler configured invokes the handler
\* exactly once and returns what the handler answered, whether or not the key
\* is whitelisted under the category.
C2_ForcedAlwaysAsks ==
    (GateCall /\ last.gate.force /\ confirmation_callback) =>
        /\ last.gate.calls = 1
        /\ last.gate.execute = last.gate.answer.execute
        /\ last.gate.remember = last.gate.answer.remember

\* the key is whitelisted, the request forced, and the handler declined
C2_Witness ==
    /\ GateCall /\ last.gate.force /\ confirmation_callback
    /\ Member(whitelist, last.request.category, last.request.item)
    /\ last.gate.calls = 1 /\ ~last.gate.execute

FileCall == last.op = "execute_file_operation"

LaunchCall == last.op = "launch_application"

\* the resolved path is neither an allowed directory nor below one
OutsideAllowedRoots(path) ==
    \A i \in DOMAIN allowed_dirs :
        ~IsRelativeTo(Resolve(path), Resolve(allowed_dirs[i]))

StoreUnchanged == whitelist' = whitelist /\ whitelist_file' = whitelist_file

FilesystemUnchanged == files' = files /\ dirs' = dirs

\* C3: whatever the operation, a file request whose resolved path lies outside
\* the allowed directories is answered "path denied": the gate is not
\* consulted, the handler is not invoked, and neither the whitelist (in
\* memory or on disk) nor the filesystem changes.
C3_PathOutsideRootsDenied ==
    [][(last'.op = "execute_file_operation"
          /\ OutsideAllowedRoots(last'.request.path)) =>
            /\ last'.result = "PathDenied"
            /\ ~last'.gate.consulted
            /\ last'.gate.calls = 0
            /\ last'.effects = <<>>
            /\ StoreUnchanged
            /\ FilesystemUnchanged]_vars

\* a deletion through the symbolic link /tmp/link is denied
C3_Witness ==
    /\ FileCall
    /\ last.request.operation = "delete_file"
    /\ last.request.path = <<"tmp", "link", "passwd">>
    /\ last.result = "PathDenied"
    /\ confirmation_callback

\* C4: a launch whose base command is not in the command allow-list is
\* answered "command not allowed" before the gate: the handler is not
\* invoked, no process is started and the whitelist does not change,
\* whatever the "applications" whitelist holds.
C4_UnlistedCommandDenied ==
    [][(last'.op = "launch_application"
          /\ last'.request.application[1] \notin command_whitelist) =>
            /\ last'.result = "CommandNotAllowed"
            /\ ~last'.gate.consulted
            /\ last'.gate.calls = 0
            /\ last'.effects = <<>>
            /\ StoreUnchanged]_vars

\* "vim" is denied although "vim" is a key of the "applications" whitelist
C4_Witness ==
    /\ LaunchCall
    /\ last.request.application = <<"vim">>
    /\ Member(whitelist, "applications", <<"vim">>)
    /\ last.result = "CommandNotAllowed"
    /\ confirmation_callback

\* some effect of the last call is of one of the kinds
Did(kinds) == \E i \in DOMAIN last.effects : last.effects[i].kind \in kinds

\* C5: a launch of an allowed command that is in DANGEROUS_COMMANDS is always
\* forced: with a handler configured the handler is invoked on every such
\* request, also when the very command string is a key of the "applications"
\* whitelist, and the process is started only if that invocation approves.
C5_DangerousAlwaysPrompts ==
    (LaunchCall
       /\ last.request.application[1] \in DANGEROUS_COMMANDS
       /\ last.request.application[1] \in command_whitelist) =>
        /\ last.gate.consulted /\ last.gate.force
        /\ confirmation_callback => last.gate.calls = 1
        /\ Did({"Popen", "run"}) => (last.gate.calls = 1 /\ last.gate.answer.execute)

\* "rm x" was remembered before, and the handler is asked again and declines
C5_Witness ==
    /\ LaunchCall
    /\ last.request.application = <<"rm">> /\ last.request.args = <<"x">>
    /\ Member(whitelist, "applications", <<"rm", "x">>)
    /\ last.gate.calls = 1 /\ ~last.gate.answer.execute
    /\ last.result = "Cancelled"

\* C6: delete_file and delete_directory inside the allowed directories are
\* always forced: with a handler configured the handler is invoked on every
\* such request, also when "delete_file:<parent>" is a key of the
\* "file_operations" whitelist, and a file is unlinked only if that
\* invocation approves.
C6_DeletesAlwaysPrompt ==
    (FileCall
       /\ last.request.operation \in {"delete_file", "delete_directory"}
       /\ ~OutsideAllowedRoots(last.request.path)) =>
        /\ last.gate.consulted /\ last.gate.force
        /\ confirmation_callback => last.gate.calls = 1
        /\ Did({"unlink"}) => (last.gate.calls = 1 /\ last.gate.answer.execute)

\* the key of the deletion was remembered before; the handler is asked again,
\* approves, and the file is deleted
C6_Witness ==
    /\ FileCall
    /\ last.request.operation = "delete_file"
    /\ last.request.path = <<"tmp", "d", "f">>
    /\ Member(whitelist, "file_operations", <<"delete_file", ":", "tmp", "d">>)
    /\ last.gate.listed
    /\ last.gate.calls = 1 /\ last.gate.answer.execute
    /\ last.result = "FileDeleted"

\* C7 as claimed: every file mutation of execute_file_operation (create_file,
\* create_directory, delete_file, delete_directory) happens only after the
\* gate returned execute for the request.
C7_EveryMutationGated ==
    (FileCall /\ Did(FileMutations)) => (last.gate.consulted /\ last.gate.execute)

\* C7, amended: a file mutation of create_file, delete_file or
\* delete_directory happens only after the gate returned execute for the
\* request, by the handler's approval or because the key is whitelisted and
\* the request not forced; create_directory is the one mutating operation
\* that is carried out without consulting the gate.
C7_MutationsGatedExceptCreateDirectory ==
    (FileCall /\ Did(FileMutations)) =>
        \/ /\ last.request.operation = "create_directory"
           /\ ~last.gate.consulted
        \/ /\ last.request.operation \in {"create_file", "delete_file", "delete_directory"}
           /\ last.gate.consulted /\ last.gate.execute
           /\ \/ last.gate.calls = 1 /\ last.gate.answer.execute
              \/ /\ last.gate.calls = 0 /\ ~last.gate.force
                 /\ Member(whitelist, "file_operations", last.gate.item)

\* a file is created on the strength of the whitelist alone
C7_Witness ==
    /\ FileCall
    /\ last.request.operation = "create_file"
    /\ last.result = "FileCreated"
    /\ Did({"write_text"})
    /\ last.gate.calls = 0 /\ last.gate.execute

\* C8: with no handler configured, every request that reaches the gate forced,
\* or with a key that is not whitelisted under its category, is decided
\* (not execute, not remember): the call is answered "cancelled", nothing is
\* created, deleted, started or fetched, and the whitelist does not change.
C8_NoHandlerDenies ==
    [][(~confirmation_callback
          /\ last'.gate.consulted
          /\ (last'.gate.force
                \/ ~Member(whitelist, last'.gate.category, last'.gate.item))) =>
            /\ ~last'.gate.execute /\ ~last'.gate.remember
            /\ last'.gate.calls = 0
            /\ last'.result = "Cancelled"
            /\ ~last'.raised
            /\ last'.effects = <<>>
            /\ StoreUnchanged
            /\ FilesystemUnchanged]_vars

\* the forced launch of "rm x" is cancelled for want of a handler
C8_Witness ==
    /\ ~confirmation_callback
    /\ LaunchCall
    /\ last.request.application = <<"rm">>
    /\ last.gate.consulted /\ last.gate.force
    /\ ~last.gate.execute /\ last.gate.calls = 0
    /\ last.result = "Cancelled"

\* the whitelist wl with item added under category
WithKey(wl, category, item) ==
    [c \in DOMAIN wl \cup {category} |->
        IF c = category
        THEN (IF c \in DOMAIN wl THEN wl[c] ELSE {}) \cup {item}
        ELSE wl[c]]

\* C9: an executor operation changes the whitelist only by adding the
\* request's key under the request's category, and only when the decision
\* was (execute, remember); a decision without execute adds nothing, also
\* when it says remember; and after a decision (execute, remember) the key is
\* in the whitelist under the category when the operation ends.
C9_RememberOnlyWhenExecuted ==
    [][/\ whitelist' # whitelist =>
            /\ last'.gate.consulted
            /\ last'.gate.execute /\ last'.gate.remember
            /\ whitelist' = WithKey(whitelist, last'.gate.category, last'.gate.item)
       /\ (last'.gate.consulted /\ ~last'.gate.execute) => StoreUnchanged
       /\ (last'.gate.consulted /\ last'.gate.execute /\ last'.gate.remember) =>
            Member(whitelist', last'.gate.category, last'.gate.item)]_vars

\* the handler approved a fetch and asked to remember the domain
C9_Witness ==
    /\ last.op = "fetch_web_page"
    /\ last.gate.calls = 1 /\ last.gate.execute /\ last.gate.remember
    /\ Member(whitelist, "web_urls", <<"example.com">>)

\* C10: an executor operation that is denied for its path or command,
\* cancelled, approved from the whitelist, approved without remember, or
\* that needs no confirmation, leaves the whitelist as it was, in memory
\* and on disk.
C10_WhitelistFrame ==
    [][(last'.op \in {"execute_file_operation", "launch_application", "fetch_web_page"}
          /\ \/ last'.result \in {"PathDenied", "CommandNotAllowed", "Cancelled"}
             \/ ~last'.gate.consulted
             \/ last'.gate.calls = 0
             \/ ~last'.gate.remember) => StoreUnchanged]_vars

\* a fetch approved from the whitelist, the whitelist file as it was
C10_Witness ==
    /\ last.op = "fetch_web_page"
    /\ last.gate.consulted /\ last.gate.calls = 0 /\ last.gate.execute
    /\ last.result = "Content"
    /\ Member(whitelist, "web_urls", <<"example.com">>)

ExecutorCall ==
    last.op \in {"execute_file_operation", "launch_application", "fetch_web_page"}

\* the gate's decision was not to execute, or the handler answered so
Declined(call) ==
    /\ call.gate.consulted
    /\ \/ ~call.gate.execute
       \/ call.gate.calls = 1 /\ ~call.gate.answer.execute

\* C11: when the decision of the gate has execute = false, whether the
\* handler declined or no handler is configured, a file operation, a launch
\* and a fetch alike perform no effect (nothing written, created or deleted,
\* no process started, no HTTP request sent), leave the filesystem as it
\* was, and return the outcome "Action cancelled by user" without raising.
C11_CancelledDoesNothing ==
    [][(last'.op \in {"execute_file_operation", "launch_application", "fetch_web_page"}
          /\ Declined(last')) =>
            /\ last'.result = "Cancelled"
            /\ ~last'.raised
            /\ last'.effects = <<>>
            /\ FilesystemUnchanged]_vars

\* the handler declined to overwrite an allowed file: cancelled, nothing done
C11_Witness ==
    /\ FileCall /\ last.request.operation = "create_file"
    /\ last.gate.calls = 1 /\ ~last.gate.answer.execute /\ ~last.gate.execute
    /\ last.result = "Cancelled" /\ ~last.raised /\ last.effects = <<>>

\* every key of the whitelist wl is a key of the whitelist wl2
KeysKept(wl, wl2) ==
    \A c \in DOMAIN wl : c \in DOMAIN wl2 /\ wl[c] \subseteq wl2[c]

\* the whitelist key of a creation in the directory that path names
CreateKey(path) == <<"create_file", ":">> \o Parent(path)

RetryEnded == retry.status \in {"returned", "raised", "exhausted"}

\* the calls made so far are the attempts 1, 2, ... in order, each with the
\* caller's arguments
CallsInOrder ==
    \A i \in DOMAIN retry.calls :
        retry.calls[i].attempt = i /\ retry.calls[i].args = retry.args

AllRetryable == \A i \in DOMAIN retry.calls : retry.calls[i].outcome = "retryable"

\* C14: an execution with max_attempts = N >= 1 whose operation raises a
\* retryable failure at every call calls it exactly N times, one after the
\* other, and ends with RetryExhaustedError whose cause is the failure of
\* the N-th call; it returns no value and raises no failure unwrapped.
C14_ExhaustedAfterNCalls ==
    /\ Len(retry.calls) <= retry.policy.max_attempts
    /\ CallsInOrder
    /\ (RetryEnded /\ AllRetryable) =>
            /\ Len(retry.calls) = retry.policy.max_attempts
            /\ retry.status = "exhausted"
            /\ retry.raised = <<"RetryExhaustedError">>
            /\ retry.cause = <<"failure", retry.policy.max_attempts>>
            /\ retry.result = None
    /\ (retry.status = "running" /\ AllRetryable) =>
            Len(retry.calls) < retry.policy.max_attempts

\* three attempts, all failed: exhausted with the third failure as cause
C14_Witness ==
    /\ retry.policy.max_attempts = 3
    /\ retry.status = "exhausted"
    /\ Len(retry.calls) = 3 /\ AllRetryable
    /\ retry.cause = <<"failure", 3>>

\* C15: the delay slept after the k-th failed attempt (1 <= k < N) is
\* min(d * b^(k-1), m) for initial_delay d, backoff_factor b >= 1 and
\* max_delay m, so that no delay, the first included, exceeds max_delay;
\* an exhausted execution has slept exactly N - 1 delays, none after the
\* last attempt.
C15_EveryDelayClamped ==
    /\ \A k \in DOMAIN retry.sleeps :
            retry.sleeps[k] = Min(retry.policy.initial_delay
                                    * retry.policy.backoff_factor ^ (k - 1),
                                  retry.policy.max_delay)
    /\ retry.status = "exhausted" =>
            Len(retry.sleeps) = retry.policy.max_attempts - 1

\* C16: a failure outside the policy's retryable set, raised by the k-th
\* call, leaves execute at once as that same failure, not wrapped in
\* RetryExhaustedError: the k-th call is the last one, only the k - 1
\* retryable failures before it were followed by a delay, and the attempts
\* that remain are not made.
C16_OtherFailurePropagates ==
    \A k \in DOMAIN retry.calls :
        retry.calls[k].outcome = "other" =>
            /\ k = Len(retry.calls)
            /\ retry.status = "raised"
            /\ retry.raised = <<"failure", k>>
            /\ retry.cause = None /\ retry.result = None
            /\ Len(retry.sleeps) = k - 1
            /\ \A i \in 1..(k - 1) : retry.calls[i].outcome = "retryable"

\* the second of four attempts raises a failure that is not retryable
C16_Witness ==
    /\ retry.policy.max_attempts = 4
    /\ Len(retry.calls) = 2 /\ retry.calls[2].outcome = "other"
    /\ retry.status = "raised" /\ retry.raised = <<"failure", 2>>
    /\ Len(retry.sleeps) = 1

\* C17: when the calls 1..k-1 fail retryably and the k-th call returns
\* (1 <= k <= max_attempts), execute, entered directly or through the
\* wrapper of retry_with_backoff, returns the value of the k-th call; the
\* operation has been called exactly k times, each time with the caller's
\* arguments, and neither a call nor a delay follows the success.
C17_ReturnsValueOfFirstSuccess ==
    \A k \in DOMAIN retry.calls :
        retry.calls[k].outcome = "returns" =>
            /\ k = Len(retry.calls) /\ k <= retry.policy.max_attempts
            /\ retry.status = "returned"
            /\ retry.result = <<"value", k>>
            /\ retry.raised = None
            /\ \A i \in 1..k : retry.calls[i].attempt = i
                                /\ retry.calls[i].args = retry.args
            /\ \A i \in 1..(k - 1) : retry.calls[i].outcome = "retryable"
            /\ Len(retry.sleeps) = k - 1

\* a wrapped function called with ("x", "y") succeeds at its third call
C17_Witness ==
    /\ retry.wrapped /\ retry.args = <<"x", "y">>
    /\ retry.status = "returned" /\ retry.result = <<"value", 3>>
    /\ Len(retry.calls) = 3 /\ retry.calls[3].args = <<"x", "y">>
    /\ Len(retry.sleeps) = 2

ChainEnded == chain.status \in {"returned", "raised"}

\* the indices of the candidates whose call does not fail
Succeeding ==
    {i \in 0..(Len(chain.functions) - 1) : chain.functions[i + 1].outcome = "returns"}

\* the candidates called so far are 0, 1, 2, ... in order, once each
ChainCallsInOrder == \A j \in DOMAIN chain.calls : chain.calls[j] = j - 1

\* C18: the chain tries its candidates in declaration order, one at a time:
\* if i is the least index of a candidate that does not fail, execute
\* returns (the result of candidate i, i), the candidates before i have
\* been called once each and no candidate after i is called.
C18_FirstSuccessWins ==
    /\ ChainCallsInOrder
    /\ (ChainEnded /\ Succeeding # {}) =>
            LET i == CHOOSE n \in Succeeding : \A o \in Succeeding : n <= o
            IN  /\ chain.status = "returned"
                /\ chain.result = <<"value", i>> /\ chain.index = i
                /\ Len(chain.calls) = i + 1

\* C19: execute fails only if every candidate fails; then every candidate
\* has been called once, in order, and the failure raised is the one the
\* last candidate raised, as it is.
C19_FailsOnlyIfAllFail ==
    /\ ChainCallsInOrder
    /\ chain.status = "raised" =>
            /\ Succeeding = {}
            /\ Len(chain.calls) = Len(chain.functions)
            /\ chain.raised = <<"failure", Len(chain.functions) - 1>>

FetchCall == last.op = "fetch_web_page"

\* C13: fetches are gated by domain.  With a handler configured, a fetch
\* runs without the handler exactly when the netloc of its url is in the
\* whitelist under "web_urls", whatever the path and the query; an approval
\* with remember puts the netloc there and no operation takes a key out, so
\* every later fetch of the same site is approved unprompted while a fetch
\* of another site still prompts.
C13_FetchGatedByDomain ==
    [][/\ KeysKept(whitelist, whitelist')
       /\ (last'.op = "fetch_web_page" /\ confirmation_callback) =>
            LET key == <<last'.request.url[2]>>
                cached == Member(whitelist, "web_urls", key)
            IN  /\ cached => (last'.gate.calls = 0 /\ last'.gate.execute
                                /\ last'.result # "Cancelled")
                /\ ~cached => last'.gate.calls = 1
                /\ (last'.gate.calls = 1 /\ last'.gate.execute /\ last'.gate.remember)
                      => Member(whitelist', "web_urls", key)
                /\ (FetchCall
                      /\ last.gate.calls = 1 /\ last.gate.execute /\ last.gate.remember
                      /\ last.request.url[2] = last'.request.url[2])
                      => last'.gate.calls = 0]_vars

\* example.com/b?q=1 is fetched unprompted, example.com being remembered
C13_Witness ==
    /\ confirmation_callback
    /\ FetchCall /\ last.request.url = <<"https", "example.com", "b?q=1">>
    /\ last.gate.consulted /\ last.gate.calls = 0 /\ last.gate.execute
    /\ last.result = "Content"
    /\ whitelist["web_urls"] = {<<"example.com">>}

\* the requests sent by the last call
Requests == SelectSeq(last.effects, LAMBDA e : e.kind = "requests.get")

\* the delays slept by the last call
Sleeps == SelectSeq(last.effects, LAMBDA e : e.kind = "time.sleep")

\* the attempts at which requests.get would succeed
GoodAttempts ==
    {k \in 1..FetchPolicy.max_attempts : NetAt(last.request.nets, k) = "ok"}

\* C20: with retry logic enabled and the fetch authorized, a request that
\* fails with a transient network failure is retried: when it fails at
\* every attempt, three requests are sent, with sleeps of 2 s and 4 s
\* between them, and the fetch returns "Error: Unable to fetch <url> after
\* multiple attempts"; when it succeeds at a later attempt, the requests
\* stop there and that attempt's content is returned.
C20_TransientFailureRetried ==
    (FetchCall /\ last.gate.execute /\ last.request.retry_logic = "on") =>
        IF GoodAttempts = {}
        THEN /\ Len(Requests) = FetchPolicy.max_attempts
             /\ Len(Sleeps) = 2
             /\ Sleeps[1].target = <<2>> /\ Sleeps[2].target = <<4>>
             /\ last.result = "UnableToFetch"
        ELSE /\ Len(Requests) = CHOOSE k \in GoodAttempts :
                                    \A o \in GoodAttempts : k <= o
             /\ last.result = "Content"

\* the degraded status of every service but s, and the offline flag, are the same
OthersKept(dm, dm2, s) ==
    /\ \A o \in Services \ {s} : is_degraded(dm2, o) <=> is_degraded(dm, o)
    /\ is_offline(dm2) <=> is_offline(dm)

\* C21: after mark_degraded(s) the service s is degraded and listed by
\* get_degraded_services; after mark_recovered(s) it is not degraded;
\* neither raises, also mark_recovered of a service that is not degraded,
\* which changes nothing; either call made twice in a row leaves the state
\* of the first call; and neither changes the status of another service or
\* the offline flag.
C21_MarkAndRecover ==
    [][LET s == degraded_mode'.call.service
           again == degraded_mode.call = degraded_mode'.call
       IN  /\ degraded_mode'.call.op = "mark_degraded" =>
                /\ is_degraded(degraded_mode', s)
                /\ \E i \in DOMAIN get_degraded_services(degraded_mode') :
                        get_degraded_services(degraded_mode')[i] = s
                /\ ~degraded_mode'.call.raised
                /\ OthersKept(degraded_mode, degraded_mode', s)
                /\ again => degraded_mode' = degraded_mode
                /\ mark_degraded(degraded_mode', s) = degraded_mode'
           /\ degraded_mode'.call.op = "mark_recovered" =>
                /\ ~is_degraded(degraded_mode', s)
                /\ ~degraded_mode'.call.raised
                /\ OthersKept(degraded_mode, degraded_mode', s)
                /\ ~is_degraded(degraded_mode, s) =>
                        degraded_mode'.degraded_services
                            = degraded_mode.degraded_services
                /\ again => degraded_mode' = degraded_mode
                /\ mark_recovered(degraded_mode', s) = degraded_mode']_vars

\* "stt" is recovered while "llm" stays degraded and the offline flag set
C21_Witness ==
    /\ degraded_mode.call = ManagerCall("mark_recovered", "stt", FALSE)
    /\ degraded_mode.degraded_services = {"llm"}
    /\ degraded_mode.offline_mode

ChatCall == service_call.op = "chat"

\* every attempt that the call could make fails
AllFailed == \A k \in DOMAIN service_call.outcomes : service_call.outcomes[k] = "failed"

\* C22: with retry logic enabled, a chat whose backend call fails at every
\* attempt makes exactly three backend attempts, leaves "llm" degraded and
\* returns a response without raising: the response cached under the
\* normalized message if there is one, otherwise a canned reply chosen by
\* rule, with no tool calls.
C22_ChatDegradesAfterThreeAttempts ==
    (ChatCall /\ service_call.retry_logic = "on" /\ AllFailed) =>
        LET cached == CacheGet(offline_cache, Strip(LowerAll(service_call.request)))
        IN  /\ service_call.attempts = 3
            /\ service_call.exhausted
            /\ is_degraded(degraded_mode, "llm")
            /\ service_call.raised = None
            /\ service_call.result # None
            /\ service_call.result.tool_calls = None
            /\ cached # None => service_call.result = cached
            /\ cached = None =>
                    service_call.result.response
                        \in {<<"Hello">>, <<"Goodbye">>, <<"Unavailable">>}

\* " hi " is answered from the cache entry of "Hi" after three failed attempts
C22_Witness ==
    /\ ChatCall /\ service_call.retry_logic = "on" /\ AllFailed
    /\ service_call.request = <<" ", "h", "i", " ">>
    /\ service_call.attempts = 3 /\ service_call.exhausted
    /\ service_call.result = Response(<<"reply">>, None)
    /\ is_degraded(degraded_mode, "llm")

ServiceCall == service_call.op \in {"chat", "transcribe", "synthesize"}

\* the service that a call belongs to
ServiceOf(op) ==
    CASE op = "chat" -> "llm" [] op = "transcribe" -> "stt" [] OTHER -> "tts"

\* C23: with retry logic enabled, after a chat, transcribe or synthesize
\* call completes, its service is degraded if the call exhausted its primary
\* retries, and is not degraded if a primary attempt of the call succeeded,
\* whatever the degraded set was before the call.
C23_DegradedFollowsPrimary ==
    (ServiceCall /\ service_call.retry_logic = "on" /\ service_call.attempts > 0) =>
        LET s == ServiceOf(service_call.op)
        IN  /\ service_call.exhausted => is_degraded(degraded_mode, s)
            /\ ~service_call.exhausted => ~is_degraded(degraded_mode, s)

\* a chat answered at its third attempt recovers "llm", which the startup
\* health check had marked degraded
C23_Witness ==
    /\ service_call.op = "chat" /\ service_call.retry_logic = "on"
    /\ "llm" \in service_call.before
    /\ service_call.attempts = 3 /\ ~service_call.exhausted
    /\ ~is_degraded(degraded_mode, "llm")

\* the report of the probe called name in the last call
Healthy(name) ==
    \E i \in DOMAIN service_call.probes :
        service_call.probes[i] = Probe(name, TRUE)

\* C24: after the startup health checks, "llm" is degraded exactly when the
\* Ollama probe reported unhealthy and "tts" exactly when the Piper binary
\* probe did; and a chat, transcribe or synthesize call that exhausted its
\* retries consulted a health probe before it updated the tracker.
C24_TrackerFollowsHealthChecker ==
    /\ service_call.op = "perform_health_checks" =>
            /\ is_degraded(degraded_mode, "llm") <=> ~Healthy("check_ollama")
            /\ is_degraded(degraded_mode, "tts") <=> ~Healthy("check_file_exists")
    /\ (ServiceCall /\ service_call.exhausted) => service_call.probes # <<>>

\* C25: execute_tool_call returns a string and raises nothing, whatever the
\* tool call names, whatever the handler decides, and when the handler, the
\* settings or the operation called fails.
C25_ToolCallNeverRaises ==
    tool_call # NoToolCall =>
        /\ ~tool_call.raised
        /\ tool_call.result # ""
        /\ (tool_call.dispatched /\ last.raised) =>
                tool_call.result = "ErrorExecutingTool"

\* a file operation whose handler raised is reported as an error of the tool
C25_Witness ==
    /\ tool_call.request.function_name = "execute_file_operation"
    /\ tool_call.dispatched /\ ~tool_call.raised
    /\ last.result = "HandlerError" /\ last.raised
    /\ tool_call.result = "ErrorExecutingTool"

\* C26: execute_file_operation, launch_application and fetch_web_page, called
\* directly, return an outcome string and let no exception through, whatever
\* fails inside them.
C26_OperationsNeverRaise ==
    last.op \in ToolNames => ~last.raised

\* C27: after every add_to_whitelist or remove_from_whitelist call returns,
\* a fresh WhitelistManager that loads the backing file obtains exactly the
\* mapping of categories to sets of keys that the store holds in memory.
C27_WriteThroughRoundTrip ==
    last.op \in {"add_to_whitelist", "remove_from_whitelist"} =>
        load_whitelist(whitelist_file) = whitelist

\* C28: for every max_history >= 0, after each add_message the history holds
\* at most max_history + 1 messages, the first of them is the first message
\* ever added, and the others are the messages added last, in the order they
\* were added, each once.
C28_HistoryKeepsFirstAndLast ==
    (history.built /\ added # <<>>) =>
        LET messages == get_messages(history)
            k == Len(messages)
            n == Len(added)
        IN  /\ k <= history.max_history + 1
            /\ k >= 1 /\ k <= n
            /\ messages[1] = added[1]
            /\ \A i \in 2..k : messages[i] = added[n - k + i]

\* C29: after reset_conversation, from any conversation state, the history
\* holds exactly one message, the system prompt.
C29_ResetLeavesSystemPrompt ==
    service_call.op = "reset_conversation" =>
        get_messages(history) = <<Message("system", SYSTEM_PROMPT)>>

\* C30: load_session(id) returns the messages of the most recent
\* save_session of id, in the same order, with message_count equal to their
\* number, and returns none for an id never saved or deleted since.
C30_SessionRoundTrip ==
    database.call.op = "load_session" =>
        LET id == database.call.session_id
            session == database.call.result
        IN  IF id \in DOMAIN database.saved
            THEN /\ session # None
                 /\ session.messages = database.saved[id]
                 /\ session.message_count = Len(database.saved[id])
            ELSE session = None

\* a transcribe call with retry logic and the fallback recognizer enabled
FallbackTranscribe ==
    /\ service_call.op = "transcribe"
    /\ service_call.retry_logic = "on"
    /\ service_call.fallback_setting = "on"

\* C31: with retry logic and fallback STT enabled, transcribe invokes the
\* fallback recognizer only after exactly three failed attempts of the
\* primary one and with "stt" marked degraded; it returns the fallback's
\* result if the fallback succeeds and raises the unavailability error if it
\* fails; the fallback is not invoked when a primary attempt succeeds.
C31_RetryThenFallback ==
    FallbackTranscribe =>
        /\ service_call.fallback # "" =>
                /\ service_call.attempts = 3
                /\ service_call.exhausted
                /\ \A k \in 1..3 : service_call.outcomes[k] = "failed"
                /\ is_degraded(degraded_mode, "stt")
        /\ service_call.fallback = "ok" =>
                service_call.result = <<"fallback">> /\ service_call.raised = None
        /\ service_call.fallback = "failed" =>
                service_call.raised = <<"RuntimeError">>
        /\ (\E k \in 1..3 : service_call.outcomes[k] = "ok") =>
                /\ service_call.fallback = ""
                /\ service_call.result = <<"transcription">>
        /\ (\A k \in 1..3 : service_call.outcomes[k] = "failed") =>
                service_call.fallback # ""

\* the primary recognizer fails three times, then the fallback fails too
C31_Witness ==
    /\ FallbackTranscribe
    /\ service_call.attempts = 3 /\ service_call.exhausted
    /\ service_call.fallback = "failed"
    /\ service_call.raised = <<"RuntimeError">>
    /\ is_degraded(degraded_mode, "stt")

\* what process_user_input does for a response of n tool calls, in order
RECURSIVE ToolLoop(_)
ToolLoop(n) ==
    IF n = 0 THEN << <<"chat">> >>
    ELSE ToolLoop(n - 1) \o << <<"execute", n>>, <<"record", n>> >>

IsPrefix(s, t) == Len(s) <= Len(t) /\ s = SubSeq(t, 1, Len(s))

\* C32: for a response carrying n tool calls, process_user_input executes
\* all n in the order given, adds each result to the history before it
\* executes the next, and asks the LLM again only after the n results are
\* recorded, whatever the earlier tool calls returned: no tool call ends it
C32_AllToolCallsInOrder ==
    LET n == Len(turn.tool_calls)
        k == Len(turn.tool_results)
        whole == ToolLoop(n) \o << <<"follow_up">> >>
    IN  n > 0 =>
            /\ IsPrefix(turn.trace, whole)
            /\ turn.pc \in {"returned", "raised"} => turn.trace = whole /\ k = n
            /\ turn.pc = "follow_up" => turn.trace = ToolLoop(n) /\ k = n
            /\ turn.pc = "execute" => turn.trace = ToolLoop(k) /\ k < n
            /\ turn.pc \in {"execute", "follow_up"} /\ k > 0 =>
                    history.messages[Len(history.messages)] =
                        Message("tool", <<turn.tool_calls[k].function_name,
                                          turn.tool_results[k]>>)

\* a response of two tool calls whose first failed in its operation and
\* whose second was executed all the same, answered after the follow-up
C32_Witness ==
    /\ turn.pc = "returned"
    /\ Len(turn.tool_calls) = 2
    /\ turn.tool_results[1] = "ErrorExecutingTool"
    /\ turn.tool_results[2] \notin {"ErrorExecutingTool", "UnknownTool"}
    /\ turn.trace[Len(turn.trace)] = <<"follow_up">>

\* a chat that began with the tracker offline and the offline mode enabled
\* in the settings
OfflineChat ==
    ChatCall /\ service_call.offline_mode /\ service_call.offline = "on"

\* C33: when the tracker is in offline mode, offline mode is enabled in the
\* settings and a response is cached under the normalized user message, chat
\* returns that response without any call of the backend and without a
\* change of the degraded set; without a cached response it goes on to the
\* backend call path (the retry setting is read, the backend is called).
C33_OfflineCacheFirst ==
    OfflineChat =>
        /\ service_call.cached # None =>
                /\ service_call.result = service_call.cached
                /\ service_call.raised = None
                /\ service_call.attempts = 0
                /\ ~service_call.exhausted
                /\ degraded_mode.degraded_services = service_call.before
        /\ service_call.cached = None =>
                IF service_call.retry_logic = "unset"
                THEN service_call.raised = <<"AttributeError">>
                ELSE service_call.attempts >= 1

\* " hi " is answered offline from the entry of "Hi" while "llm" is degraded
C33_Witness ==
    /\ OfflineChat
    /\ service_call.request = <<" ", "h", "i", " ">>
    /\ service_call.cached = Response(<<"reply">>, None)
    /\ service_call.result = service_call.cached
    /\ service_call.attempts = 0
    /\ service_call.outcomes[1] = "failed"
    /\ degraded_mode.degraded_services = {"llm"}

CacheKeys(cache) == {cache[i].key : i \in DOMAIN cache}

\* C34: the offline cache never holds more than offline_response_cache_size
\* entries; caching a new key in a full cache evicts the oldest entry and no
\* other, and caching a key that is already present evicts no entry of
\* another key.
C34_CacheBoundedFifo ==
    [][LET old == CacheKeys(offline_cache)
           new == CacheKeys(offline_cache')
       IN  /\ Len(offline_cache') <= CacheSize
           /\ \A key \in old \ new :
                /\ new \ old # {}
                /\ Len(offline_cache) = CacheSize
                /\ key = offline_cache[1].key]_vars

\* the content of the assistant message that carries a response: its text,
\* or its tool calls as JSON
Carried(response) ==
    IF response.response # <<>> THEN response.response
    ELSE <<"json">> \o response.tool_calls

\* C35: every chat that returns a response leaves the history ending with
\* the user message followed by one assistant message carrying that
\* response, on every return path (backend success, offline cache, degraded
\* response from the cache, rule-based degraded reply); failed attempts that
\* are retried add no assistant message.
C35_ChatExtendsHistory ==
    (ChatCall /\ service_call.result # None /\ history.max_history >= 2) =>
        LET n == Len(history.messages)
        IN  /\ n >= 3
            /\ history.messages[n - 1] = Message("user", service_call.request)
            /\ history.messages[n] = Message("assistant", Carried(service_call.result))

\* C36: two launch requests that map to the same key of 'applications' run
\* the same command vector, so a launch that the whitelist approves runs the
\* vector of whichever request was approved under its key.
C36_SameKeySameVector ==
    (LaunchCall /\ last.gate.listed /\ last.gate.execute /\ last.effects # <<>>) =>
        \A l \in Launches :
            CmdWithArgs(l.application, l.args) = last.gate.item =>
                CommandVector(l.application, l.args) = last.effects[1].target

\* the degraded set after the two calls made one after the other, first is
\* the thread that goes first
Sequential(first) ==
    LET Apply(dm, op) == IF op = "mark_degraded" THEN mark_degraded(dm, callers.service)
                         ELSE mark_recovered(dm, callers.service)
        second == CHOOSE t \in Threads : t # first
        began == [degraded_mode EXCEPT !.degraded_services = callers.start]
    IN  Apply(Apply(began, callers.threads[first].op),
              callers.threads[second].op).degraded_services

\* C37: when two threads call mark_degraded or mark_recovered for the same
\* service at once, under every interleaving no call raises, and the set
\* they leave is the one that some sequential order of the two calls leaves.
C37_ConcurrentMarksSerializable ==
    \A t \in Threads :
        /\ ~callers.threads[t].raised
        /\ (\A u \in Threads : callers.threads[u].pc = "done") =>
                \E first \in Threads :
                    degraded_mode.degraded_services = Sequential(first)

\* the frames that a timeout of the call allows, rounded up
FrameLimit == (detector.call.timeout * detector.sample_rate) \div frame_length + 1

\* C39: listen_for_wake_word with a finite positive timeout ends: without a
\* keyword frame it returns False after at least one frame and at most about
\* timeout * sample_rate / frame_length frames, it returns True as soon as a
\* frame is detected, and it raises instead of listening when the detector
\* is not initialized (before initialize, after cleanup).
C39_ListenTerminates ==
    LET call == detector.call
    IN  /\ call.timeout > 0 =>
            /\ call.frames_processed <= FrameLimit
            /\ call.pc = "returned" /\ ~call.detected => call.frames_processed >= 1
            /\ call.detected => call.pc = "returned"
        /\ call.pc = "listening" => detector.initialized
        /\ call.raised = <<"RuntimeError">> => call.frames_read = 0

\* C38: execute depends only on whether each candidate fails, whether the
\* candidates have a __name__ or not: the primary is called in every
\* execution, and the failures that execute records are those that the
\* candidates raised themselves.
C38_ChainIgnoresNames ==
    ChainEnded =>
        /\ chain.calls # <<>> /\ chain.calls[1] = 0
        /\ chain.last_exception # None =>
                \E i \in DOMAIN chain.calls :
                    /\ chain.functions[chain.calls[i] + 1].outcome # "returns"
                    /\ chain.last_exception = <<"failure", chain.calls[i]>>

====
